---------------------------- MODULE Spec2Model ----------------------------
(***************************************************************************)
(* A model of the blog-publishing pipeline of weadsip12-hub/hy:            *)
(*   app/ai_processor.py    the generation client (captions, draft,        *)
(*                          rewrite) with its retry loop,                  *)
(*   app/content_builder.py the assembler (title, slug, placeholders),     *)
(*   app/drive_manager.py   selection of unprocessed images,               *)
(*   app/pipeline.py        the orchestrator.                              *)
(*                                                                         *)
(* Strings are sequences of one-character strings; "NL" stands for the     *)
(* line feed.  The module holds several specifications, one per component; *)
(* each leaves the variables of the other components untouched.            *)
(***************************************************************************)
EXTENDS Integers, Sequences, FiniteSets, TLC

VARIABLES
    \* ---- generation client (ai_processor.py) ----
    gpc,          \* "idle" | "loop" | "sleep" | "done": position in the call
    op,           \* "captions" | "draft" | "rewrite"
    mock_mode,    \* AIProcessor.mock_mode
    api_key,      \* TRUE iff AIProcessor.api_key is set (truthy)
    provider,     \* AIProcessor.provider, lower-cased
    prompt_ok,    \* TRUE iff the prompt file of the operation exists
    images,       \* the batch handed to generate_photo_captions
    attempt,      \* loop variable of _gemini_generate_text
    requests,     \* number of requests.post calls of this call
    waits,        \* number of time.sleep calls of this call
    retrySeen,    \* number of responses seen that were 429 or truncated
    resp,         \* the last HTTP response received
    wait,         \* length of the last sleep, in tenths of a second
    outcome,      \* what the call returned or raised
    \* ---- assembler (content_builder.py) ----
    apc,          \* "idle" | "called" | "returned"
    post_text,    \* the draft handed to _extract_title
    title_res,    \* what _extract_title returned or raised
    title,        \* the title handed to _make_slug by build
    ids,          \* the file ids of the images handed to build
    today,        \* the day build runs on (_today_prefix)
    calls,        \* number of build calls made on these inputs
    base_slug,    \* build's base_slug
    slug,         \* build's slug (BuildResult.post_slug)
    post_filename,\* build's post_filename
    prev_slug,    \* the slug of the previous build call on these inputs
    body,         \* the text handed to _inject_images
    image_web_paths, \* the image paths handed to _inject_images
    result,       \* what _inject_images returned
    \* ---- orchestrator and selection (pipeline.py, drive_manager.py) ----
    rpc,          \* position of the run: "idle", "start", "picked", "downloaded",
                  \* "captioned", "generated", "built", "manifest", "published",
                  \* "done" (run returned), "raised" (an exception left run_pipeline)
    folder,       \* the images of the Drive folder, in the order files().list gives
    processed,    \* the ids the tracker (state.json) holds as processed
    batch_size,   \* DriveManager.batch_size
    new_images,   \* the DriveImage objects of this run, with their local_path
    downloaded,   \* run's variable downloaded
    run_title,    \* the title line of the post_text generated in this run
    build_result, \* run's variable build_result
    posts,        \* the manifest posts.json: the file of each entry, in order
    publishes,    \* number of git.publish calls of this run
    markIdx,      \* position of the loop of _update_state
    ok_count,     \* ok_count of _update_state
    run_result,   \* the PipelineResult of this run
    written,      \* number of images download_images has written in this run
    log,          \* the stages called in this run, each with its success
    marks,        \* the mark_processed calls of this run, each with its success
    processed0,   \* the ids the tracker held when this run started
    lastPick,     \* the ids pick_new_images returned last
    quiet,        \* no mark_processed succeeded and the folder did not change
                  \* since the last pick_new_images
    repeat,       \* the last pick_new_images was made while quiet
    \* ---- the document of a post (content_builder.py, _make_markdown) ----
    captions_json,\* the caption set handed to build
    md,           \* the markdown document build wrote
    \* ---- the download directory (drive_manager.py, download_images) ----
    disk,         \* the files of images_root: path and the id whose bytes it holds
    \* ---- two runs of the pipeline at the same time ----
    runs          \* for each run: its position, its selection, whether it has
                  \* published, and the position of its marking loop

genVars == <<gpc, op, mock_mode, api_key, provider, prompt_ok, images,
             attempt, requests, waits, retrySeen, resp, wait, outcome>>

asmVars == <<apc, post_text, title_res, title, ids, today, calls, base_slug,
             slug, post_filename, prev_slug, body, image_web_paths, result>>

pipeVars == <<rpc, folder, processed, batch_size, new_images, downloaded,
              run_title, build_result, posts, publishes, markIdx, ok_count,
              run_result, written, log, marks, processed0, lastPick, quiet,
              repeat>>

docVars == <<captions_json, md>>

dlVars == <<disk>>

twoVars == <<runs>>

vars == <<genVars, asmVars, pipeVars, docVars, dlVars, twoVars>>

\* no caption set; the entries of a caption set are [isDict, summary]
NoCaptions == [isDict |-> FALSE, images |-> <<>>]

\* build has not been asked for a document (the other specifications)
DocIdle ==
    /\ captions_json = NoCaptions
    /\ md = <<>>

\* the download directory is not looked at (the other specifications)
DlIdle == disk = {}

\* no second run is looked at (the other specifications)
TwoIdle == runs = <<>>

\* build_result = None, and no PipelineResult returned yet; <<>> is None
NoBuild == [post_path |-> <<>>, post_slug |-> <<>>]
NoResult ==
    [ok |-> FALSE, message |-> "", processed_count |-> 0, post_path |-> <<>>,
     post_slug |-> <<>>, errors |-> <<>>]

\* the orchestrator is not running (the specifications of the other components)
PipeIdle ==
    /\ rpc = "off"
    /\ folder = <<>>
    /\ processed = {}
    /\ batch_size = 0
    /\ new_images = <<>>
    /\ downloaded = <<>>
    /\ run_title = ""
    /\ build_result = NoBuild
    /\ posts = <<>>
    /\ publishes = 0
    /\ markIdx = 0
    /\ ok_count = 0
    /\ run_result = NoResult
    /\ written = 0
    /\ log = <<>>
    /\ marks = <<>>
    /\ processed0 = {}
    /\ lastPick = <<>>
    /\ quiet = FALSE
    /\ repeat = FALSE

-----------------------------------------------------------------------------
(* Strings *)

Whitespace == {" ", "NL"}

RECURSIVE LStrip(_)
LStrip(s) ==
    IF s # <<>> /\ Head(s) \in Whitespace THEN LStrip(Tail(s)) ELSE s

RECURSIVE RStrip(_)
RStrip(s) ==
    IF s # <<>> /\ s[Len(s)] \in Whitespace
    THEN RStrip(SubSeq(s, 1, Len(s) - 1))
    ELSE s

\* str.strip()
Strip(s) == RStrip(LStrip(s))

\* "\n".join(texts)
RECURSIVE JoinNL(_)
JoinNL(texts) ==
    IF texts = <<>> THEN <<>>
    ELSE IF Len(texts) = 1 THEN texts[1]
    ELSE texts[1] \o <<"NL">> \o JoinNL(Tail(texts))

\* the sequences over S of length at most n
SeqsUpTo(S, n) == UNION {[1..k -> S] : k \in 0..n}

Min(a, b) == IF a <= b THEN a ELSE b


-----------------------------------------------------------------------------
(* Generation client: inputs *)

\* range(4) of the retry loop
MaxAttempts == 4
\* images[:4]
MaxImages == 4
\* backoff bases and jitter ranges, in tenths of a second
Base429 == 12
Jitter429 == 8
BaseTrunc == 10
JitterTrunc == 6

\* bounds of the inputs
MaxBatch == 5
MaxParts == 2
MaxExtraCands == 1
MaxCapEntries == 2

Ops == {"captions", "draft", "rewrite"}
Providers == {"gemini", "other"}
Batches == {[i \in 1..n |-> i] : n \in 0..MaxBatch}

\* the text of a content segment: "", "a", " b", " "
SegTexts == {<<>>, <<"a">>, <<" ", "b">>, <<" ">>}
\* a content segment: a dict with a "text" key, or anything else
Parts == [hasText : {TRUE}, text : SegTexts] \cup {[hasText |-> FALSE, text |-> <<>>]}
FinishReasons == {"STOP", "MAX_TOKENS"}
FirstCands == [finishReason : FinishReasons, parts : SeqsUpTo(Parts, MaxParts)]
ExtraCands ==
    { [finishReason |-> "STOP", parts |-> <<>>],
      [finishReason |-> "STOP", parts |-> <<[hasText |-> TRUE, text |-> <<"a">>]>>] }
CandLists ==
    {<<>>} \cup
    {<<c>> \o rest : c \in FirstCands, rest \in SeqsUpTo(ExtraCands, MaxExtraCands)}

\* responses to a text-generation request; json is FALSE when the body of a 200
\* response is not JSON
TextResponses ==
    {[status |-> s, json |-> TRUE, cands |-> <<>>] : s \in {429, 500}}
    \cup {[status |-> 200, json |-> FALSE, cands |-> <<>>]}
    \cup {[status |-> 200, json |-> TRUE, cands |-> cs] : cs \in CandLists}

\* JSON values a caption response text may denote
NoValue == [kind |-> "none", images |-> <<>>]
CapEntries == {[index |-> i, line1 |-> 0, line2 |-> 0] : i \in 0..MaxCapEntries}
JsonValues ==
    {[kind |-> k, images |-> <<>>] : k \in {"list", "num", "obj"}}
    \cup {[kind |-> "caps", images |-> im] : im \in SeqsUpTo(CapEntries, MaxCapEntries)}

\* a caption response text is a sequence of tokens: the code-fence markers
\* (three backticks, with or without "json"), white space, a complete JSON value, or other text
FenceJson == [t |-> "fence_json", v |-> NoValue]
Fence == [t |-> "fence", v |-> NoValue]
Ws == [t |-> "ws", v |-> NoValue]
Junk == [t |-> "junk", v |-> NoValue]
ValueTok(v) == [t |-> "value", v |-> v]
Payloads == {<<ValueTok(v)>> : v \in JsonValues} \cup {<<Junk>>, <<>>}
CapTexts ==
    Payloads
    \cup {<<FenceJson, Ws>> \o p \o <<Ws, Fence>> : p \in Payloads}
    \cup {<<Ws, Fence>> \o p \o <<Fence, Ws>> : p \in Payloads}
    \cup {<<ValueTok(v), Ws, ValueTok(v)>> : v \in {[kind |-> "num", images |-> <<>>]}}

\* responses to the caption request; hasText is FALSE when
\* data["candidates"][0]["content"]["parts"][0]["text"] does not exist
CapResponses ==
    {[status |-> s, json |-> TRUE, hasText |-> FALSE, text |-> <<>>] : s \in {429, 500}}
    \cup {[status |-> 200, json |-> j, hasText |-> FALSE, text |-> <<>>] : j \in BOOLEAN}
    \cup {[status |-> 200, json |-> TRUE, hasText |-> TRUE, text |-> t] : t \in CapTexts}

NoResp == [status |-> 0, json |-> FALSE, cands |-> <<>>]

-----------------------------------------------------------------------------
(* Generation client: the code *)

NoOutcome == [kind |-> "none", err |-> "", text |-> <<>>, captions |-> NoValue]
OkText(t) == [kind |-> "ok", err |-> "", text |-> t, captions |-> NoValue]
OkCaptions(c) == [kind |-> "ok", err |-> "", text |-> <<>>, captions |-> c]
Raise(e) == [kind |-> "error", err |-> e, text |-> <<>>, captions |-> NoValue]

\* mutant: the key check is left out
MissingKey_skipped(k) == FALSE

\* if not self.api_key
MissingKey(k) == ~k

\* _mock_captions
MockCaptions(imgs) ==
    [kind |-> "caps",
     images |-> [idx \in 1..Len(imgs) |-> [index |-> idx, line1 |-> idx, line2 |-> idx]]]

\* _mock_post: a title line, an empty line and the body
MockPost == <<"a", "NL", "NL", "b">>
\* the draft handed to rewrite_trendy_blog
DraftIn == <<"b">>

\* images = images[:4]
Truncate(imgs) == SubSeq(imgs, 1, Min(Len(imgs), MaxImages))

\* generate_photo_captions up to the HTTP request: the outcome, or NoOutcome
\* when the request is to be sent
CaptionsPre(m, k, p, f, imgs) ==
    IF imgs = <<>> THEN Raise("empty_batch")
    ELSE IF m THEN OkCaptions(MockCaptions(Truncate(imgs)))
    ELSE IF p # "gemini" THEN Raise("unsupported_provider")
    ELSE IF MissingKey(k) THEN Raise("missing_key")
    ELSE IF ~f THEN Raise("missing_prompt")
    ELSE NoOutcome

\* generate_post_markdown and rewrite_trendy_blog up to the retry loop of
\* _gemini_generate_text
TextPre(o, m, k, p, f) ==
    IF m THEN OkText(IF o = "draft" THEN MockPost ELSE DraftIn)
    ELSE IF p # "gemini" THEN Raise("unsupported_provider")
    ELSE IF ~f THEN Raise("missing_prompt")
    ELSE IF MissingKey(k) THEN Raise("missing_key")
    ELSE NoOutcome

\* cand0 = cands[0] if cands else {}
Cand0(r) ==
    IF r.cands # <<>> THEN r.cands[1] ELSE [finishReason |-> "none", parts |-> <<>>]

\* mutant: only the first part is read
ExtractTexts_first(parts) ==
    IF parts # <<>> /\ Head(parts).hasText /\ Head(parts).text # <<>>
    THEN <<Head(parts).text>> ELSE <<>>

\* texts: the truthy "text" values of the parts of cand0, in order
RECURSIVE ExtractTexts(_)
ExtractTexts(parts) ==
    IF parts = <<>> THEN <<>>
    ELSE (IF Head(parts).hasText /\ Head(parts).text # <<>>
          THEN <<Head(parts).text>> ELSE <<>>) \o ExtractTexts(Tail(parts))

\* mutant: every status other than 200 is retried like a 429
TextBranch_retryAll(r) ==
    IF r.status # 200 THEN "retry_429"
    ELSE IF ~r.json THEN "decode_error"
    ELSE IF ExtractTexts(Cand0(r).parts) # <<>> THEN "accept"
    ELSE IF Cand0(r).finishReason = "MAX_TOKENS" THEN "retry_trunc"
    ELSE "unexpected_response"

\* mutant: a 200 response without text is retried whatever its finish reason
TextBranch_retryNoText(r) ==
    IF r.status = 429 THEN "retry_429"
    ELSE IF r.status # 200 THEN "api_error"
    ELSE IF ~r.json THEN "decode_error"
    ELSE IF ExtractTexts(Cand0(r).parts) # <<>> THEN "accept"
    ELSE "retry_trunc"

\* the branch one iteration of the retry loop takes on response r
TextBranch(r) ==
    IF r.status = 429 THEN "retry_429"
    ELSE IF r.status # 200 THEN "api_error"
    ELSE IF ~r.json THEN "decode_error"
    ELSE IF ExtractTexts(Cand0(r).parts) # <<>> THEN "accept"
    ELSE IF Cand0(r).finishReason = "MAX_TOKENS" THEN "retry_trunc"
    ELSE "unexpected_response"

\* return "\n".join(texts).strip(), stripped once more by the caller
ResultText(r) == Strip(Strip(JoinNL(ExtractTexts(Cand0(r).parts))))

\* wait = base * 2 ** attempt + random.uniform(0, jitter)
BackoffBase(kind) == IF kind = "sleep_429" THEN Base429 ELSE BaseTrunc
BackoffJitter(kind) == IF kind = "sleep_429" THEN Jitter429 ELSE JitterTrunc
\* the jitter values drawn: both ends of the range and its middle
JitterValues(kind) == {0, BackoffJitter(kind) \div 2, BackoffJitter(kind)}

\* mutant: the wait grows by the base with every attempt instead of doubling
Backoff_linear(kind, a, j) == BackoffBase(kind) * (a + 1) + j

\* the wait of attempt a with jitter j
Backoff(kind, a, j) == BackoffBase(kind) * (2 ^ a) + j

\* text.strip().replace(fence_json, "").replace(fence, "").strip()
StripWs(s) ==
    LET RECURSIVE L(_)
        L(x) == IF x # <<>> /\ Head(x) = Ws THEN L(Tail(x)) ELSE x
        RECURSIVE R(_)
        R(x) == IF x # <<>> /\ x[Len(x)] = Ws THEN R(SubSeq(x, 1, Len(x) - 1)) ELSE x
    IN R(L(s))
RemoveTok(s, tok) == SelectSeq(s, LAMBDA x : x # tok)
CleanFences(text) == StripWs(RemoveTok(RemoveTok(StripWs(text), FenceJson), Fence))

\* json.loads(cleaned) succeeds iff cleaned is one JSON value
JsonLoadsOk(cleaned) == Len(cleaned) = 1 /\ cleaned[1].t = "value"
JsonLoads(cleaned) == cleaned[1].v

\* the outcome of _gemini_generate_captions_json on response r
CaptionsResult(r) ==
    IF r.status # 200 THEN Raise("api_error")
    ELSE IF ~r.json THEN Raise("decode_error")
    ELSE IF ~r.hasText THEN Raise("unexpected_response")
    ELSE IF JsonLoadsOk(CleanFences(r.text)) THEN OkCaptions(JsonLoads(CleanFences(r.text)))
    ELSE Raise("captions_parse_failed")

GenInit ==
    /\ gpc = "idle"
    /\ op = "draft"
    /\ mock_mode = FALSE
    /\ api_key = TRUE
    /\ provider = "gemini"
    /\ prompt_ok = TRUE
    /\ images = <<>>
    /\ attempt = 0
    /\ requests = 0
    /\ waits = 0
    /\ retrySeen = 0
    /\ resp = NoResp
    /\ wait = 0
    /\ outcome = NoOutcome

\* (for the claims) a response is retryable: 429, or 200 whose first candidate is truncated and
\* carries no text
Retryable(r) ==
    \/ r.status = 429
    \/ /\ r.status = 200
       /\ r.json
       /\ r.cands # <<>>
       /\ r.cands[1].finishReason = "MAX_TOKENS"
       /\ \A i \in 1..Len(r.cands[1].parts) :
              ~r.cands[1].parts[i].hasText \/ r.cands[1].parts[i].text = <<>>

\* a generation operation is called and runs up to its first HTTP request
Call(o, m, k, p, f, imgs) ==
    /\ gpc = "idle"
    /\ op' = o
    /\ mock_mode' = m
    /\ api_key' = k
    /\ provider' = p
    /\ prompt_ok' = f
    /\ images' = imgs
    /\ LET pre == IF o = "captions" THEN CaptionsPre(m, k, p, f, imgs)
                  ELSE TextPre(o, m, k, p, f)
       IN /\ outcome' = pre
          /\ gpc' = IF pre # NoOutcome THEN "done"
                    ELSE IF o = "captions" THEN "post" ELSE "loop"
    /\ UNCHANGED <<attempt, requests, waits, retrySeen, resp, wait>>

\* mutant: one attempt more
InLoop_five(a) == a <= MaxAttempts

\* for attempt in range(4)
InLoop(a) == a < MaxAttempts

\* one iteration of the retry loop: the request and the branch on its response
TextRequest(r) ==
    /\ gpc = "loop"
    /\ InLoop(attempt)
    /\ requests' = requests + 1
    /\ resp' = r
    /\ retrySeen' = retrySeen + (IF Retryable(r) THEN 1 ELSE 0)
    /\ LET b == TextBranch(r)
       IN /\ gpc' = IF b = "retry_429" THEN "sleep_429"
                    ELSE IF b = "retry_trunc" THEN "sleep_trunc"
                    ELSE "done"
          /\ outcome' = IF b \in {"retry_429", "retry_trunc"} THEN outcome
                        ELSE IF b = "accept" THEN OkText(ResultText(r))
                        ELSE Raise(b)
    /\ UNCHANGED <<op, mock_mode, api_key, provider, prompt_ok, images, attempt,
                   waits, wait>>

\* mutant: the wait after the last attempt is left out
Sleep_noLastWait(j) ==
    /\ gpc \in {"sleep_429", "sleep_trunc"}
    /\ j \in JitterValues(gpc)
    /\ wait' = IF attempt + 1 < MaxAttempts THEN Backoff(gpc, attempt, j) ELSE wait
    /\ waits' = IF attempt + 1 < MaxAttempts THEN waits + 1 ELSE waits
    /\ attempt' = attempt + 1
    /\ gpc' = "loop"
    /\ resp' = NoResp
    /\ UNCHANGED <<op, mock_mode, api_key, provider, prompt_ok, images, requests,
                   retrySeen, outcome>>

\* time.sleep(wait); continue (the response is dropped)
Sleep(j) ==
    /\ gpc \in {"sleep_429", "sleep_trunc"}
    /\ j \in JitterValues(gpc)
    /\ wait' = Backoff(gpc, attempt, j)
    /\ waits' = waits + 1
    /\ attempt' = attempt + 1
    /\ gpc' = "loop"
    /\ resp' = NoResp
    /\ UNCHANGED <<op, mock_mode, api_key, provider, prompt_ok, images, requests,
                   retrySeen, outcome>>

\* the loop ran out: raise RuntimeError("... failed after retries ...")
Exhausted ==
    /\ gpc = "loop"
    /\ ~InLoop(attempt)
    /\ gpc' = "done"
    /\ outcome' = Raise("retries_exhausted")
    /\ UNCHANGED <<op, mock_mode, api_key, provider, prompt_ok, images, attempt,
                   requests, waits, retrySeen, resp, wait>>

\* mutant: a 429 answer to the caption request is waited out and the request
\* repeated, as in the text-generation loop
CaptionRequest_retry429(r) ==
    /\ gpc = "post"
    /\ requests' = requests + 1
    /\ resp' = r
    /\ IF r.status = 429 /\ requests + 1 < MaxAttempts
       THEN /\ gpc' = "post"
            /\ waits' = waits + 1
            /\ outcome' = outcome
       ELSE /\ gpc' = "done"
            /\ waits' = waits
            /\ outcome' = CaptionsResult(r)
    /\ UNCHANGED <<op, mock_mode, api_key, provider, prompt_ok, images, attempt,
                   retrySeen, wait>>

\* the single request of _gemini_generate_captions_json
CaptionRequest(r) ==
    /\ gpc = "post"
    /\ requests' = requests + 1
    /\ resp' = r
    /\ outcome' = CaptionsResult(r)
    /\ gpc' = "done"
    /\ UNCHANGED <<op, mock_mode, api_key, provider, prompt_ok, images, attempt,
                   waits, retrySeen, wait>>

GenNext ==
    \/ \E o \in Ops, m \in BOOLEAN, k \in BOOLEAN, p \in Providers, f \in BOOLEAN :
          \E imgs \in (IF o = "captions" THEN Batches ELSE {<<>>}) :
              Call(o, m, k, p, f, imgs)
    \/ \E r \in TextResponses : TextRequest(r)
    \/ \E j \in 0..Jitter429 : Sleep(j)
    \/ Exhausted
    \/ \E r \in CapResponses : CaptionRequest(r)


AsmIdle ==
    /\ apc = "idle"
    /\ post_text = <<>>
    /\ title_res = [kind |-> "none", title |-> <<>>]
    /\ title = <<>>
    /\ ids = <<>>
    /\ today = "D0"
    /\ calls = 0
    /\ base_slug = <<>>
    /\ slug = <<>>
    /\ post_filename = <<>>
    /\ prev_slug = <<>>
    /\ body = <<>>
    /\ image_web_paths = <<>>
    /\ result = <<>>

SpecGenInit == GenInit /\ AsmIdle /\ PipeIdle /\ DocIdle /\ DlIdle /\ TwoIdle
SpecGenNext == GenNext /\ UNCHANGED <<asmVars, pipeVars, docVars, dlVars, twoVars>>
SpecGen == SpecGenInit /\ [][SpecGenNext]_vars

-----------------------------------------------------------------------------
(* Claims about the generation client *)

TextOp == op \in {"draft", "rewrite"}
\* a response of the current call is at hand
Answered == gpc \in {"sleep_429", "sleep_trunc", "done"} /\ resp # NoResp

\* C1: a text-generation call issues at most 4 requests, and it ends in the
\* retries-exhausted error exactly when 4 responses were received and all 4 were
\* retryable (429 or truncated without text, in any mix); a call that succeeds
\* after three retryable responses has made exactly 4 requests.
C1_RetryBound ==
    TextOp =>
        /\ requests <= 4
        /\ retrySeen <= requests
        /\ gpc = "done" =>
              /\ (outcome = Raise("retries_exhausted")) <=> (retrySeen = 4)
              /\ outcome = Raise("retries_exhausted") => requests = 4 /\ waits = 4
              /\ (outcome.kind = "ok" /\ retrySeen = 3) => requests = 4
              /\ outcome.err = "api_error" => outcome # Raise("retries_exhausted")

C1_Witness ==
    /\ TextOp
    /\ gpc = "done"
    /\ outcome = Raise("retries_exhausted")
    /\ requests = 4
    /\ retrySeen = 4

\* C2: in a text-generation call a response whose status is neither 200 nor
\* 429 ends the call with the provider error on that attempt: no wait follows
\* it and no further request is made, whatever the attempt number.
C2_NoRetryOnOtherStatus ==
    (TextOp /\ Answered /\ resp.status \notin {200, 429}) =>
        /\ gpc = "done"
        /\ outcome = Raise("api_error")
        /\ requests = attempt + 1
        /\ waits = attempt

C2_Witness ==
    /\ TextOp
    /\ Answered
    /\ resp.status = 500
    /\ attempt = 2
    /\ outcome = Raise("api_error")

\* the non-empty text segments of a list of parts, concatenated in order
RECURSIVE ConcatTexts(_)
ConcatTexts(parts) ==
    IF parts = <<>> THEN <<>>
    ELSE (IF Head(parts).hasText THEN Head(parts).text ELSE <<>>)
         \o ConcatTexts(Tail(parts))

\* the same over all candidates of a response
RECURSIVE ConcatCands(_)
ConcatCands(cands) ==
    IF cands = <<>> THEN <<>>
    ELSE ConcatTexts(Head(cands).parts) \o ConcatCands(Tail(cands))

NotNL(c) == c # "NL"
NotWs(c) == c \notin Whitespace

\* the call was accepted on the attempt that received resp
AcceptedNow ==
    /\ gpc = "done"
    /\ outcome.kind = "ok"
    /\ requests = attempt + 1
    /\ waits = attempt

\* C3 as stated: a 200 response with non-empty text in any segment of any
\* candidate is accepted on that attempt, and the returned text holds every
\* non-empty segment exactly once, in order.
C3_Original ==
    (/\ TextOp
     /\ Answered
     /\ resp.status = 200
     /\ resp.json
     /\ ConcatCands(resp.cands) # <<>>) =>
        /\ AcceptedNow
        /\ SelectSeq(outcome.text, NotNL) = ConcatCands(resp.cands)

\* C3 (amended): a 200 response whose first candidate has non-empty text in any
\* of its segments is accepted on that attempt, with no wait and no further
\* request, whatever its finish reason; the returned text is trimmed, and its
\* non-blank characters are those of the first candidate's segments, each once
\* and in the order of the segments.
C3_AcceptFirstCandidate ==
    (/\ TextOp
     /\ Answered
     /\ resp.status = 200
     /\ resp.json
     /\ resp.cands # <<>>
     /\ ConcatTexts(resp.cands[1].parts) # <<>>) =>
        /\ AcceptedNow
        /\ outcome.text = Strip(outcome.text)
        /\ SelectSeq(outcome.text, NotWs)
               = SelectSeq(ConcatTexts(resp.cands[1].parts), NotWs)

C3_Witness ==
    /\ TextOp
    /\ Answered
    /\ attempt = 1
    /\ resp.status = 200
    /\ resp.cands # <<>>
    /\ resp.cands[1].finishReason = "MAX_TOKENS"
    /\ Len(resp.cands[1].parts) = 2
    /\ resp.cands[1].parts[1].text = <<" ", "b">>
    /\ resp.cands[1].parts[2].text = <<"a">>
    /\ outcome = OkText(<<"b", "NL", "a">>)

\* C4 as stated: whenever generate_photo_captions returns, in mock or in real
\* mode, the caption set has one entry per item of the batch cut to 4, with
\* index values 1..n in order.
C4_Original ==
    (op = "captions" /\ gpc = "done" /\ outcome.kind = "ok") =>
        /\ outcome.captions.kind = "caps"
        /\ Len(outcome.captions.images) = Min(Len(images), 4)
        /\ \A i \in 1..Len(outcome.captions.images) :
               outcome.captions.images[i].index = i

\* C5 as stated: a caption response text that is valid JSON once the fences
\* are stripped, but is no caption object, makes the call fail with the
\* malformed-captions error.
C5_Original ==
    (/\ op = "captions"
     /\ gpc = "done"
     /\ resp # NoResp
     /\ resp.status = 200
     /\ resp.json
     /\ resp.hasText
     /\ \E v \in JsonValues :
           /\ v.kind # "caps"
           /\ SelectSeq(resp.text, LAMBDA x : x \notin {Ws, Fence, FenceJson})
                  = <<ValueTok(v)>>) =>
        outcome = Raise("captions_parse_failed")

\* C6: with the API key missing in real mode, every generation operation fails
\* before any request is sent and without any wait; the failure is the
\* missing-key configuration error whenever the provider is the supported one,
\* the prompt file exists and the batch is not empty.
C6_MissingKeyNoRequest ==
    (gpc # "idle" /\ ~mock_mode /\ ~api_key) =>
        /\ gpc = "done"
        /\ outcome.kind = "error"
        /\ requests = 0
        /\ waits = 0
        /\ (provider = "gemini" /\ prompt_ok /\ (op = "captions" => images # <<>>))
               => outcome = Raise("missing_key")

C6_Witness ==
    /\ gpc = "done"
    /\ ~mock_mode
    /\ ~api_key
    /\ op = "captions"
    /\ Len(images) = 2
    /\ outcome = Raise("missing_key")
    /\ requests = 0

-----------------------------------------------------------------------------
(* Assembler: title and slug *)

\* title[:50]
SlugMax == 50
\* str(images[0].file_id)[:6]
SuffixMax == 6

Untitled == <<"U", "n", "t", "i", "t", "l", "e", "d">>
PostToken == <<"p", "o", "s", "t">>

\* the characters of the model's strings, by class
AsciiLetters == {"a", "b", "x", "A", "U", "n", "t", "i", "l", "e", "d", "p", "o", "s"}
Digits == {"1", "7"}
Hangul == {"ga"}

\* the class of _make_slug: digits, ASCII letters, Hangul syllables, hyphen
SlugChar(c) == c \in AsciiLetters \cup Digits \cup Hangul \cup {"-"}

\* str.splitlines()
RECURSIVE SplitLines(_)
SplitLines(s) ==
    IF s = <<>> THEN <<>>
    ELSE IF \E i \in 1..Len(s) : s[i] = "NL"
         THEN LET i == CHOOSE k \in 1..Len(s) :
                           s[k] = "NL" /\ \A m \in 1..(k - 1) : s[m] # "NL"
              IN <<SubSeq(s, 1, i - 1)>> \o SplitLines(SubSeq(s, i + 1, Len(s)))
         ELSE <<s>>

\* _extract_title; [0] of an empty list raises IndexError
ExtractTitle(t) ==
    IF t = <<>> THEN [kind |-> "ok", title |-> Untitled]
    ELSE LET lines == SplitLines(Strip(t))
         IN IF lines = <<>> THEN [kind |-> "error", title |-> <<>>]
            ELSE IF Strip(lines[1]) # <<>>
                 THEN [kind |-> "ok", title |-> Strip(lines[1])]
                 ELSE [kind |-> "ok", title |-> Untitled]

\* re.sub(r"\s+", "-", title)
RECURSIVE CollapseWs(_)
CollapseWs(s) ==
    IF s = <<>> THEN <<>>
    ELSE IF Head(s) \in Whitespace THEN <<"-">> \o CollapseWs(LStrip(s))
    ELSE <<Head(s)>> \o CollapseWs(Tail(s))

\* title.strip("-")
RECURSIVE StripHyphens(_)
StripHyphens(s) ==
    IF s # <<>> /\ Head(s) = "-" THEN StripHyphens(Tail(s))
    ELSE IF s # <<>> /\ s[Len(s)] = "-" THEN StripHyphens(SubSeq(s, 1, Len(s) - 1))
    ELSE s

Prefix(s, n) == SubSeq(s, 1, Min(Len(s), n))

\* mutant: the slug is not cut to 50 characters
MakeSlug_uncut(t) ==
    LET cleaned == StripHyphens(SelectSeq(CollapseWs(Strip(t)), SlugChar))
    IN IF cleaned # <<>> THEN cleaned ELSE PostToken

\* _make_slug
MakeSlug(t) ==
    LET cleaned == StripHyphens(SelectSeq(CollapseWs(Strip(t)), SlugChar))
    IN IF cleaned # <<>> THEN Prefix(cleaned, SlugMax) ELSE PostToken

\* suffix of build: the first 6 characters of the first image's id
Suffix(fileIds) ==
    IF fileIds # <<>> /\ fileIds[1] # <<>> THEN Prefix(fileIds[1], SuffixMax)
    ELSE PostToken

\* slug = f"{base_slug}-{suffix}"
SlugOf(base, fileIds) == base \o <<"-">> \o Suffix(fileIds)

\* post_filename = f"{date_prefix}-{slug}.md"
PostFilename(day, sl) == <<day, "-">> \o sl \o <<".md">>


\* bounds of the inputs
MaxDraftLen == 4
MaxTail == 2
MaxPad == 50

DraftChars == {"a", "b", " ", "NL"}
Drafts == SeqsUpTo(DraftChars, MaxDraftLen)

\* titles: at most one leading character, a run of letters that is empty or
\* about as long as the slug bound, and a short tail
TitleChars == {"a", "ga", " ", "-", "!"}
PadLens == {0} \cup ((SlugMax - 2)..MaxPad)
Titles ==
    {h \o [i \in 1..n |-> "a"] \o t :
        h \in SeqsUpTo(TitleChars, 1), n \in PadLens, t \in SeqsUpTo(TitleChars, MaxTail)}

\* the image lists handed to build, by their file ids: no image, an image
\* without id, one with a short id, one with a long id
IdLists ==
    { <<>>,
      << <<>> >>,
      << <<"x", "_", "7">> >>,
      << <<"1", "A", "b", "_", "-", "7", "x">>, <<"x">> >> }
Days == {"D1", "D2"}

\* _extract_title is called on a draft
ExtractTitleCall ==
    /\ apc = "called"
    /\ title_res' = ExtractTitle(post_text)
    /\ apc' = "returned"
    /\ UNCHANGED <<post_text, title, ids, today, calls, base_slug, slug,
                   post_filename, prev_slug, body, image_web_paths, result>>

SpecTitleInit ==
    /\ GenInit
    /\ PipeIdle
    /\ DocIdle
    /\ DlIdle
    /\ TwoIdle
    /\ apc = "called"
    /\ post_text \in Drafts
    /\ title_res = [kind |-> "none", title |-> <<>>]
    /\ title = <<>>
    /\ ids = <<>>
    /\ today = "D0"
    /\ calls = 0
    /\ base_slug = <<>>
    /\ slug = <<>>
    /\ post_filename = <<>>
    /\ prev_slug = <<>>
    /\ body = <<>>
    /\ image_web_paths = <<>>
    /\ result = <<>>

SpecTitleNext == ExtractTitleCall /\ UNCHANGED <<genVars, pipeVars, docVars, dlVars, twoVars>>
SpecTitle == SpecTitleInit /\ [][SpecTitleNext]_vars

\* build, from the title on: base_slug, suffix, slug and post_filename
BuildSlug(day) ==
    /\ apc \in {"called", "returned"}
    /\ calls < 2
    /\ calls' = calls + 1
    /\ today' = day
    /\ prev_slug' = slug
    /\ base_slug' = MakeSlug(title)
    /\ slug' = SlugOf(MakeSlug(title), ids)
    /\ post_filename' = PostFilename(day, SlugOf(MakeSlug(title), ids))
    /\ apc' = "returned"
    /\ UNCHANGED <<post_text, title_res, title, ids, body, image_web_paths, result>>

SpecSlugInit ==
    /\ GenInit
    /\ PipeIdle
    /\ DocIdle
    /\ DlIdle
    /\ TwoIdle
    /\ apc = "called"
    /\ post_text = <<>>
    /\ title_res = [kind |-> "none", title |-> <<>>]
    /\ title \in Titles
    /\ ids \in IdLists
    /\ today = "D0"
    /\ calls = 0
    /\ base_slug = <<>>
    /\ slug = <<>>
    /\ post_filename = <<>>
    /\ prev_slug = <<>>
    /\ body = <<>>
    /\ image_web_paths = <<>>
    /\ result = <<>>

SpecSlugNext == (\E day \in Days : BuildSlug(day)) /\ UNCHANGED <<genVars, pipeVars, docVars, dlVars, twoVars>>
SpecSlug == SpecSlugInit /\ [][SpecSlugNext]_vars

-----------------------------------------------------------------------------
(* Claims about title and slug *)

AllowedSlugChars == AsciiLetters \cup Digits \cup Hangul \cup {"-"}

\* the lines of a text, cut at every line feed
RECURSIVE CutAtNL(_)
CutAtNL(s) ==
    IF \E i \in 1..Len(s) : s[i] = "NL"
    THEN LET i == CHOOSE k \in 1..Len(s) :
                      s[k] = "NL" /\ \A m \in 1..(k - 1) : s[m] # "NL"
         IN <<SubSeq(s, 1, i - 1)>> \o CutAtNL(SubSeq(s, i + 1, Len(s)))
    ELSE <<s>>

\* the first line that is not blank, trimmed, or Untitled when there is none
FirstNonBlankLine(t) ==
    LET lines == CutAtNL(t)
        good == {i \in 1..Len(lines) : Strip(lines[i]) # <<>>}
    IN IF good = {} THEN Untitled
       ELSE Strip(lines[CHOOSE i \in good : \A j \in good : i <= j])

\* C8 as stated: _extract_title never fails; it returns the first non-empty
\* line of the draft, trimmed, and Untitled when the draft has no such line.
C8_Original ==
    (apc = "returned" /\ title_res.kind # "none") =>
        title_res = [kind |-> "ok", title |-> FirstNonBlankLine(post_text)]

\* C7 as stated: the slug of the post is the same on every call, is not empty,
\* holds only ASCII letters, digits, Hangul syllables and hyphens and is at
\* most 50 characters long; a blank title gives the fallback token.
C7_Original ==
    calls >= 1 =>
        /\ slug # <<>>
        /\ \A i \in 1..Len(slug) : slug[i] \in AllowedSlugChars
        /\ Len(slug) <= 50
        /\ calls = 2 => slug = prev_slug
        /\ Strip(title) = <<>> => base_slug = PostToken

\* C7 (amended): the slug is the same on every call with the same title and
\* image ids, whatever the day; its title-derived part is not empty, holds only
\* ASCII letters, digits, Hangul syllables and hyphens, is at most 50
\* characters long and is the fallback token for a blank title; the slug is
\* that part, a hyphen and the suffix, the suffix being the first 6 characters
\* of the first image's id as they are (the fallback token without an id), so
\* the slug is at most 57 characters long.
C7_SlugShape ==
    calls >= 1 =>
        /\ base_slug # <<>>
        /\ \A i \in 1..Len(base_slug) : base_slug[i] \in AllowedSlugChars
        /\ Len(base_slug) <= 50
        /\ Len(slug) <= 57
        /\ Len(slug) >= Len(base_slug) + 2
        /\ SubSeq(slug, 1, Len(base_slug)) = base_slug
        /\ slug[Len(base_slug) + 1] = "-"
        /\ LET suffix == SubSeq(slug, Len(base_slug) + 2, Len(slug))
           IN IF ids = <<>> \/ ids[1] = <<>> THEN suffix = PostToken
              ELSE /\ Len(suffix) = Min(Len(ids[1]), 6)
                   /\ suffix = SubSeq(ids[1], 1, Len(suffix))
        /\ calls = 2 => slug = prev_slug
        /\ Strip(title) = <<>> => base_slug = PostToken

C7_Witness ==
    /\ calls = 2
    /\ today = "D2"
    /\ Len(title) > 50
    /\ Len(base_slug) = 50
    /\ Len(slug) = 57
    /\ slug = prev_slug

-----------------------------------------------------------------------------
(* Assembler: image placeholders *)

\* for i in range(1, 5)
MaxTokens == 4

\* A body is a sequence of symbols: "[[IMAGE_" and "]]" (the two ends of a
\* placeholder), the digits, ")" and "![" (the ends of a markdown image),
\* white space, an image path ("P1".."P4") or other text ("x").
TokenOpen == "[[IMAGE_"
TokenClose == "]]"
DigitOf(i) == CASE i = 1 -> "1" [] i = 2 -> "2" [] i = 3 -> "3" [] OTHER -> "4"
\* token = f"[[IMAGE_{i}]]"
Token(i) == <<TokenOpen, DigitOf(i), TokenClose>>

\* str.replace(old, new): every occurrence, left to right, without overlap
RECURSIVE Replace(_, _, _)
Replace(s, old, new) ==
    IF Len(s) < Len(old) THEN s
    ELSE IF SubSeq(s, 1, Len(old)) = old
         THEN new \o Replace(SubSeq(s, Len(old) + 1, Len(s)), old, new)
         ELSE <<Head(s)>> \o Replace(Tail(s), old, new)

\* mutant: the placeholders beyond the image count are left in place
RECURSIVE InjectFrom_keepUnused(_, _, _)
InjectFrom_keepUnused(s, paths, i) ==
    IF i > MaxTokens THEN s
    ELSE InjectFrom_keepUnused(
             IF i <= Len(paths) THEN Replace(s, Token(i), <<paths[i]>>) ELSE s,
             paths, i + 1)

\* the loop of _inject_images from index i on
RECURSIVE InjectFrom(_, _, _)
InjectFrom(s, paths, i) ==
    IF i > MaxTokens THEN s
    ELSE InjectFrom(Replace(s, Token(i), IF i <= Len(paths) THEN <<paths[i]>> ELSE <<>>),
                    paths, i + 1)

\* re.sub(r"\)\s*!\[", ")\n\n![", result)
RECURSIVE SeparateImages(_)
SeparateImages(s) ==
    IF s = <<>> THEN <<>>
    ELSE IF Head(s) = ")" /\ LStrip(Tail(s)) # <<>> /\ Head(LStrip(Tail(s))) = "!["
         THEN <<")", "NL", "NL", "![">> \o SeparateImages(Tail(LStrip(Tail(s))))
         ELSE <<Head(s)>> \o SeparateImages(Tail(s))

\* _inject_images
InjectImages(s, paths) == SeparateImages(InjectFrom(s, paths, 1))

\* bounds of the inputs
MaxFrags == 3
MaxPaths == 4

\* bodies are made of fragments: whole placeholders, the ends of a placeholder
\* on their own, and other text
Fragments ==
    { Token(1), Token(2), Token(4),
      <<TokenOpen>>, <<"1", TokenClose>>, <<"2", TokenClose>>,
      <<"x">>, <<")">>, <<" ">>, <<"![">> }
RECURSIVE Flatten(_)
Flatten(fs) == IF fs = <<>> THEN <<>> ELSE Head(fs) \o Flatten(Tail(fs))
Bodies == {Flatten(fs) : fs \in SeqsUpTo(Fragments, MaxFrags)}
PathName(i) == CASE i = 1 -> "P1" [] i = 2 -> "P2" [] i = 3 -> "P3" [] i = 4 -> "P4"
                 [] OTHER -> "P5"
PathLists == {[i \in 1..n |-> PathName(i)] : n \in 0..MaxPaths}

\* _inject_images is called
InjectCall ==
    /\ apc = "called"
    /\ result' = InjectImages(body, image_web_paths)
    /\ apc' = "returned"
    /\ UNCHANGED <<post_text, title_res, title, ids, today, calls, base_slug, slug,
                   post_filename, prev_slug, body, image_web_paths>>

SpecInjectInit ==
    /\ GenInit
    /\ PipeIdle
    /\ DocIdle
    /\ DlIdle
    /\ TwoIdle
    /\ apc = "called"
    /\ post_text = <<>>
    /\ title_res = [kind |-> "none", title |-> <<>>]
    /\ title = <<>>
    /\ ids = <<>>
    /\ today = "D0"
    /\ calls = 0
    /\ base_slug = <<>>
    /\ slug = <<>>
    /\ post_filename = <<>>
    /\ prev_slug = <<>>
    /\ body \in Bodies
    /\ image_web_paths \in PathLists
    /\ result = <<>>

SpecInjectNext == InjectCall /\ UNCHANGED <<genVars, pipeVars, docVars, dlVars, twoVars>>
SpecInject == SpecInjectInit /\ [][SpecInjectNext]_vars

-----------------------------------------------------------------------------
(* Claims about the image placeholders *)

\* s holds a placeholder [[IMAGE_1]] .. [[IMAGE_4]]
HasToken(s) ==
    \E k \in 1..Len(s) : \E i \in 1..4 :
        k + 2 <= Len(s) /\ SubSeq(s, k, k + 2) = Token(i)

\* every placeholder of s replaced in one pass: by its path when there is one,
\* by nothing otherwise
RECURSIVE OnePass(_, _)
OnePass(s, paths) ==
    IF s = <<>> THEN <<>>
    ELSE IF \E i \in 1..4 : Len(s) >= 3 /\ SubSeq(s, 1, 3) = Token(i)
         THEN LET i == CHOOSE j \in 1..4 : SubSeq(s, 1, 3) = Token(j)
              IN (IF i <= Len(paths) THEN <<paths[i]>> ELSE <<>>)
                 \o OnePass(SubSeq(s, 4, Len(s)), paths)
         ELSE <<Head(s)>> \o OnePass(Tail(s), paths)

\* a markdown image that directly follows another one is put on a line of its own
RECURSIVE Separated(_)
Separated(s) ==
    IF s = <<>> THEN <<>>
    ELSE IF Head(s) = ")" /\ \E k \in 2..Len(s) :
                 s[k] = "![" /\ \A m \in 2..(k - 1) : s[m] \in Whitespace
         THEN LET k == CHOOSE n \in 2..Len(s) :
                           s[n] = "![" /\ \A m \in 2..(n - 1) : s[m] \in Whitespace
              IN <<")", "NL", "NL", "![">> \o Separated(SubSeq(s, k + 1, Len(s)))
         ELSE <<Head(s)>> \o Separated(Tail(s))

MaxFiles == 2
MaxBatchSize == 2

\* modifiedTime values and generated titles of the model
MTimes == {1, 2}
RunTitles == {"t1", "t2"}
\* a generated post_text that is the empty string: it has no title line
EmptyPost == "empty"
\* the title build gives the post: _extract_title's placeholder for an empty text
BuildTitle(t) == IF t = EmptyPost THEN "untitled" ELSE t

\* StateClient.is_processed(file_id): the tracker holds the id
IsProcessed(tracker, file_id) == file_id \in tracker

\* StateClient.mark_processed(file_id, slug), when it succeeds
MarkProcessed(tracker, file_id) == tracker \cup {file_id}

\* a DriveImage made from a listed file; local_path <<>> is None
DriveImage(f) ==
    [file_id |-> f.file_id, name |-> f.name, modified_time |-> f.modified_time,
     local_path |-> <<>>]

\* the name of the file with the given id: every file of the model has a name
\* of its own
NameOf(file_id) == <<"i", "m", "g", DigitOf(file_id)>>

\* _safe_filename: each of the characters < > : " / \ | ? * becomes _
\* (the model's names hold : and ? of them)
BadChars == {"<", ">", ":", "/", "|", "?", "*"}
SafeFilename(name) == [i \in 1..Len(name) |-> IF name[i] \in BadChars THEN "_" ELSE name[i]]

\* target_dir / safe_name
LocalPath(name) == <<"incoming", SafeFilename(name)>>

\* one step of list.sort: x goes after every image that is not newer (stable)
InsertByMtime(sorted, x) ==
    LET keep == {i \in 1..Len(sorted) : sorted[i].modified_time <= x.modified_time}
        n == Cardinality(keep)
    IN  SubSeq(sorted, 1, n) \o <<x>> \o SubSeq(sorted, n + 1, Len(sorted))

\* images.sort(key=modified_time): a stable sort, oldest first
RECURSIVE SortByMtime(_)
SortByMtime(s) ==
    IF s = <<>> THEN <<>>
    ELSE InsertByMtime(SortByMtime(SubSeq(s, 1, Len(s) - 1)), s[Len(s)])

\* _list_images_in_folder
ListImagesInFolder(files) ==
    SortByMtime([i \in 1..Len(files) |-> DriveImage(files[i])])

\* the loop of pick_new_images with the is_processed test left out
RECURSIVE PickLoop_unfiltered(_, _, _, _, _)
PickLoop_unfiltered(all, tracker, size, i, acc) ==
    IF i > Len(all) THEN acc
    ELSE LET acc2 == Append(acc, all[i])
         IN  IF Len(acc2) >= size THEN acc2
             ELSE PickLoop_unfiltered(all, tracker, size, i + 1, acc2)

\* the loop of pick_new_images: an unprocessed image is appended, and the loop
\* breaks once the list holds batch_size images (tested after the append)
RECURSIVE PickLoop(_, _, _, _, _)
PickLoop(all, tracker, size, i, acc) ==
    IF i > Len(all) THEN acc
    ELSE LET acc2 == IF IsProcessed(tracker, all[i].file_id) THEN acc
                     ELSE Append(acc, all[i])
         IN  IF Len(acc2) >= size THEN acc2
             ELSE PickLoop(all, tracker, size, i + 1, acc2)

\* pick_new_images
PickNewImages(files, tracker, size) ==
    PickLoop(ListImagesInFolder(files), tracker, size, 1, <<>>)

\* the file ids of a list of images
IdsOf(imgs) == [i \in 1..Len(imgs) |-> imgs[i].file_id]

\* mutant: the local_path is assigned before the bytes are fetched and written
DownloadedUpTo_early(imgs, k) ==
    [i \in 1..Len(imgs) |->
        IF i <= k + 1 THEN [imgs[i] EXCEPT !.local_path = LocalPath(imgs[i].name)]
        ELSE imgs[i]]

\* download_images up to and including image k: the bytes are written under
\* the image's name and the image gets its local_path
DownloadedUpTo(imgs, k) ==
    [i \in 1..Len(imgs) |->
        IF i <= k THEN [imgs[i] EXCEPT !.local_path = LocalPath(imgs[i].name)]
        ELSE imgs[i]]

\* the slug and path of the post built from a title and the first image's id
BuildResultOf(t, imgs) ==
    [post_path |-> <<t, imgs[1].file_id>>, post_slug |-> <<t, imgs[1].file_id>>]

\* mutant: the new entry is inserted without looking for its file
InsertEntry_always(ps, file) == <<file>> \o ps

\* posts.insert(0, new_entry) unless an entry has the file already
InsertEntry(ps, file) ==
    IF \E i \in 1..Len(ps) : ps[i] = file THEN ps ELSE <<file>> \o ps

\* one stage of run(), called and returned (ok) or raised (not ok)
Stage(name, ok) == [stage |-> name, ok |-> ok]

\* mutant: the except branch of run forgets the build_result
Failed_noPost(err) ==
    [ok |-> FALSE, message |-> "Pipeline failed.", processed_count |-> 0,
     post_path |-> <<>>, post_slug |-> <<>>, errors |-> <<err>>]

\* the PipelineResult of the except branch of run
Failed(err) ==
    [ok |-> FALSE, message |-> "Pipeline failed.", processed_count |-> 0,
     post_path |-> build_result.post_path, post_slug |-> build_result.post_slug,
     errors |-> <<err>>]

\* the variables one run owns, as run() starts with them
RunLocals ==
    /\ new_images = <<>>
    /\ downloaded = <<>>
    /\ run_title = ""
    /\ build_result = NoBuild
    /\ publishes = 0
    /\ markIdx = 0
    /\ ok_count = 0
    /\ run_result = NoResult
    /\ written = 0
    /\ log = <<>>
    /\ marks = <<>>

PipeInit ==
    /\ rpc = "idle"
    /\ folder = <<>>
    /\ processed = {}
    /\ batch_size \in 0..MaxBatchSize
    /\ posts = <<>>
    /\ RunLocals
    /\ processed0 = {}
    /\ lastPick = <<>>
    /\ quiet = FALSE
    /\ repeat = FALSE

ghosts == <<lastPick, quiet, repeat>>

\* somebody puts a new image into the source folder
Upload ==
    /\ Len(folder) < MaxFiles
    /\ \E t \in MTimes :
          folder' = Append(folder,
                           [file_id |-> Len(folder) + 1, name |-> NameOf(Len(folder) + 1),
                            modified_time |-> t])
    /\ quiet' = FALSE
    /\ UNCHANGED <<rpc, processed, batch_size, new_images, downloaded, run_title,
                   build_result, posts, publishes, markIdx, ok_count, run_result,
                   written, log, marks, processed0, lastPick, repeat>>

\* run_pipeline: Pipeline(cfg) raises, e.g. create_drive_manager finds no
\* input_folder_id; nothing catches it
ConstructFails ==
    /\ rpc = "idle"
    /\ rpc' = "raised"
    /\ UNCHANGED <<folder, processed, batch_size, new_images, downloaded, run_title,
                   build_result, posts, publishes, markIdx, ok_count, run_result,
                   written, log, marks, processed0, lastPick, quiet, repeat>>

\* run() is called and _preflight_security_checks passes
Preflight ==
    /\ rpc = "idle"
    /\ rpc' = "start"
    /\ UNCHANGED <<folder, processed, batch_size, new_images, downloaded, run_title,
                   build_result, posts, publishes, markIdx, ok_count, run_result,
                   written, log, marks, processed0, lastPick, quiet, repeat>>

\* _preflight_security_checks raises: a secret file is tracked
PreflightBlocks ==
    /\ rpc = "idle"
    /\ rpc' = "done"
    /\ run_result' = [NoResult EXCEPT !.message = "SECURITY BLOCK",
                                      !.errors = <<"SECURITY BLOCK">>]
    /\ UNCHANGED <<folder, processed, batch_size, new_images, downloaded, run_title,
                   build_result, posts, publishes, markIdx, ok_count, written, log,
                   marks, processed0, lastPick, quiet, repeat>>

\* mutant: an empty selection does not end the run
Pick_goesOn ==
    /\ rpc = "start"
    /\ new_images' = PickNewImages(folder, processed, batch_size)
    /\ lastPick' = IdsOf(new_images')
    /\ repeat' = quiet
    /\ quiet' = TRUE
    /\ rpc' = "picked"
    /\ log' = Append(log, Stage("select", TRUE))
    /\ UNCHANGED <<folder, processed, batch_size, downloaded, run_title, build_result,
                   posts, publishes, markIdx, ok_count, run_result, written, marks,
                   processed0>>

\* pick_new_images returns; an empty list ends the run with "No new images."
Pick ==
    /\ rpc = "start"
    /\ LET picked == PickNewImages(folder, processed, batch_size)
       IN  /\ new_images' = picked
           /\ lastPick' = IdsOf(picked)
           /\ repeat' = quiet
           /\ quiet' = TRUE
           /\ IF picked = <<>>
              THEN /\ rpc' = "done"
                   /\ run_result' = [NoResult EXCEPT !.ok = TRUE,
                                                     !.message = "No new images."]
              ELSE /\ rpc' = "picked"
                   /\ UNCHANGED run_result
    /\ log' = Append(log, Stage("select", TRUE))
    /\ UNCHANGED <<folder, processed, batch_size, downloaded, run_title, build_result,
                   posts, publishes, markIdx, ok_count, written, marks, processed0>>

\* the listing of the folder raises
PickFails ==
    /\ rpc = "start"
    /\ rpc' = "done"
    /\ run_result' = Failed("select")
    /\ log' = Append(log, Stage("select", FALSE))
    /\ UNCHANGED <<folder, processed, batch_size, new_images, downloaded, run_title,
                   build_result, posts, publishes, markIdx, ok_count, written, marks,
                   processed0, lastPick, quiet, repeat>>

\* download_images writes every image
Download ==
    /\ rpc = "picked"
    /\ new_images' = DownloadedUpTo(new_images, Len(new_images))
    /\ downloaded' = new_images'
    /\ written' = Len(new_images)
    /\ rpc' = "downloaded"
    /\ log' = Append(log, Stage("download", TRUE))
    /\ UNCHANGED <<folder, processed, batch_size, run_title, build_result, posts,
                   publishes, markIdx, ok_count, run_result, marks, processed0,
                   lastPick, quiet, repeat>>

\* download_images raises at image k + 1, after k images were written
DownloadFails ==
    /\ rpc = "picked"
    /\ \E k \in 0..(Len(new_images) - 1) :
          /\ new_images' = DownloadedUpTo(new_images, k)
          /\ written' = k
    /\ rpc' = "done"
    /\ run_result' = Failed("download")
    /\ log' = Append(log, Stage("download", FALSE))
    /\ UNCHANGED <<folder, processed, batch_size, downloaded, run_title, build_result,
                   posts, publishes, markIdx, ok_count, marks, processed0, lastPick,
                   quiet, repeat>>

\* _resize_images, then generate_photo_captions returns
Captions ==
    /\ rpc = "downloaded"
    /\ rpc' = "captioned"
    /\ log' = Append(log, Stage("captions", TRUE))
    /\ UNCHANGED <<folder, processed, batch_size, new_images, downloaded, run_title,
                   build_result, posts, publishes, markIdx, ok_count, run_result,
                   written, marks, processed0, lastPick, quiet, repeat>>

\* mutant: an error of the caption call is swallowed and the run goes on
CaptionsFail_swallowed ==
    /\ rpc = "downloaded"
    /\ rpc' = "captioned"
    /\ log' = Append(log, Stage("captions", FALSE))
    /\ UNCHANGED <<folder, processed, batch_size, new_images, downloaded, run_title,
                   build_result, posts, publishes, markIdx, ok_count, run_result,
                   written, marks, processed0, lastPick, quiet, repeat>>

\* generate_photo_captions raises
CaptionsFail ==
    /\ rpc = "downloaded"
    /\ rpc' = "done"
    /\ run_result' = Failed("captions")
    /\ log' = Append(log, Stage("captions", FALSE))
    /\ UNCHANGED <<folder, processed, batch_size, new_images, downloaded, run_title,
                   build_result, posts, publishes, markIdx, ok_count, written, marks,
                   processed0, lastPick, quiet, repeat>>

\* load_prompt_text and generate_post_markdown return a post text, which may
\* be the empty string
Generate ==
    /\ rpc = "captioned"
    /\ run_title' \in RunTitles \cup {EmptyPost}
    /\ rpc' = "generated"
    /\ log' = Append(log, Stage("draft", TRUE))
    /\ UNCHANGED <<folder, processed, batch_size, new_images, downloaded, build_result,
                   posts, publishes, markIdx, ok_count, run_result, written, marks,
                   processed0, lastPick, quiet, repeat>>

\* the prompt load or the post call raises
GenerateFails ==
    /\ rpc = "captioned"
    /\ rpc' = "done"
    /\ run_result' = Failed("draft")
    /\ log' = Append(log, Stage("draft", FALSE))
    /\ UNCHANGED <<folder, processed, batch_size, new_images, downloaded, run_title,
                   build_result, posts, publishes, markIdx, ok_count, written, marks,
                   processed0, lastPick, quiet, repeat>>

\* _build_content returns the BuildResult
Build ==
    /\ rpc = "generated"
    /\ build_result' = BuildResultOf(BuildTitle(run_title), downloaded)
    /\ rpc' = "built"
    /\ log' = Append(log, Stage("assembly", TRUE))
    /\ UNCHANGED <<folder, processed, batch_size, new_images, downloaded, run_title,
                   posts, publishes, markIdx, ok_count, run_result, written, marks,
                   processed0, lastPick, quiet, repeat>>

\* builder.build raises
BuildFails ==
    /\ rpc = "generated"
    /\ rpc' = "done"
    /\ run_result' = Failed("assembly")
    /\ log' = Append(log, Stage("assembly", FALSE))
    /\ UNCHANGED <<folder, processed, batch_size, new_images, downloaded, run_title,
                   build_result, posts, publishes, markIdx, ok_count, written, marks,
                   processed0, lastPick, quiet, repeat>>

\* post_text.splitlines()[0] raises IndexError: the post text is empty
TitleLineFails ==
    /\ rpc = "built"
    /\ run_title = EmptyPost
    /\ rpc' = "done"
    /\ run_result' = Failed("title")
    /\ log' = Append(log, Stage("manifest", FALSE))
    /\ UNCHANGED <<folder, processed, batch_size, new_images, downloaded, run_title,
                   build_result, posts, publishes, markIdx, ok_count, written, marks,
                   processed0, lastPick, quiet, repeat>>

\* _update_posts_metadata: a new entry goes to the front unless its file is listed
UpdatePostsMetadata ==
    /\ rpc = "built"
    /\ run_title # EmptyPost
    /\ posts' = InsertEntry(posts, build_result.post_path)
    /\ rpc' = "manifest"
    /\ log' = Append(log, Stage("manifest", TRUE))
    /\ UNCHANGED <<folder, processed, batch_size, new_images, downloaded, run_title,
                   build_result, publishes, markIdx, ok_count, run_result, written,
                   marks, processed0, lastPick, quiet, repeat>>

\* writing posts.json raises
UpdatePostsMetadataFails ==
    /\ rpc = "built"
    /\ run_title # EmptyPost
    /\ rpc' = "done"
    /\ run_result' = Failed("manifest")
    /\ log' = Append(log, Stage("manifest", FALSE))
    /\ UNCHANGED <<folder, processed, batch_size, new_images, downloaded, run_title,
                   build_result, posts, publishes, markIdx, ok_count, written, marks,
                   processed0, lastPick, quiet, repeat>>

\* _git_publish returns: the repository is committed and pushed
GitPublish ==
    /\ rpc = "manifest"
    /\ publishes' = publishes + 1
    /\ markIdx' = 1
    /\ rpc' = "published"
    /\ log' = Append(log, Stage("publish", TRUE))
    /\ UNCHANGED <<folder, processed, batch_size, new_images, downloaded, run_title,
                   build_result, posts, ok_count, run_result, written, marks,
                   processed0, lastPick, quiet, repeat>>

\* mutant: a failed publish is swallowed and the run goes on to mark the images
GitPublishFails_goesOn ==
    /\ rpc = "manifest"
    /\ publishes' = publishes + 1
    /\ markIdx' = 1
    /\ rpc' = "published"
    /\ log' = Append(log, Stage("publish", FALSE))
    /\ UNCHANGED <<folder, processed, batch_size, new_images, downloaded, run_title,
                   build_result, posts, ok_count, run_result, written, marks,
                   processed0, lastPick, quiet, repeat>>

\* git.publish raises
GitPublishFails ==
    /\ rpc = "manifest"
    /\ publishes' = publishes + 1
    /\ rpc' = "done"
    /\ run_result' = Failed("publish")
    /\ log' = Append(log, Stage("publish", FALSE))
    /\ UNCHANGED <<folder, processed, batch_size, new_images, downloaded, run_title,
                   build_result, posts, markIdx, ok_count, written, marks, processed0,
                   lastPick, quiet, repeat>>

\* _update_state: mark_processed succeeds for the next image
Mark ==
    /\ rpc = "published"
    /\ markIdx <= Len(downloaded)
    /\ processed' = MarkProcessed(processed, downloaded[markIdx].file_id)
    /\ ok_count' = ok_count + 1
    /\ markIdx' = markIdx + 1
    /\ marks' = Append(marks, [file_id |-> downloaded[markIdx].file_id, ok |-> TRUE])
    /\ quiet' = FALSE
    /\ UNCHANGED <<rpc, folder, batch_size, new_images, downloaded, run_title,
                   build_result, posts, publishes, run_result, written, log,
                   processed0, lastPick, repeat>>

\* mutant: an exception of mark_processed leaves the loop and fails the run
MarkFails_fatal ==
    /\ rpc = "published"
    /\ markIdx <= Len(downloaded)
    /\ marks' = Append(marks, [file_id |-> downloaded[markIdx].file_id, ok |-> FALSE])
    /\ rpc' = "done"
    /\ run_result' = Failed("mark")
    /\ log' = Append(log, Stage("mark", FALSE))
    /\ UNCHANGED <<folder, processed, batch_size, new_images, downloaded, run_title,
                   build_result, posts, publishes, markIdx, ok_count, written,
                   processed0, lastPick, quiet, repeat>>

\* _update_state: mark_processed raises for the next image; the loop goes on
MarkFails ==
    /\ rpc = "published"
    /\ markIdx <= Len(downloaded)
    /\ markIdx' = markIdx + 1
    /\ marks' = Append(marks, [file_id |-> downloaded[markIdx].file_id, ok |-> FALSE])
    /\ UNCHANGED <<rpc, folder, processed, batch_size, new_images, downloaded,
                   run_title, build_result, posts, publishes, ok_count, run_result,
                   written, log, processed0, lastPick, quiet, repeat>>

\* _update_state returns and run returns the successful PipelineResult
Finish ==
    /\ rpc = "published"
    /\ markIdx > Len(downloaded)
    /\ rpc' = "done"
    /\ run_result' = [ok |-> TRUE, message |-> "Pipeline completed successfully.",
                      processed_count |-> ok_count,
                      post_path |-> build_result.post_path,
                      post_slug |-> build_result.post_slug, errors |-> <<>>]
    /\ log' = Append(log, Stage("mark", TRUE))
    /\ UNCHANGED <<folder, processed, batch_size, new_images, downloaded, run_title,
                   build_result, posts, publishes, markIdx, ok_count, written, marks,
                   processed0, lastPick, quiet, repeat>>

\* the process ends; the next invocation builds a new Pipeline
NextRun ==
    /\ rpc \in {"done", "raised"}
    /\ rpc' = "idle"
    /\ new_images' = <<>>
    /\ downloaded' = <<>>
    /\ run_title' = ""
    /\ build_result' = NoBuild
    /\ publishes' = 0
    /\ markIdx' = 0
    /\ ok_count' = 0
    /\ run_result' = NoResult
    /\ written' = 0
    /\ log' = <<>>
    /\ marks' = <<>>
    /\ processed0' = processed
    /\ UNCHANGED <<folder, processed, batch_size, posts, lastPick, quiet, repeat>>

PipeNext ==
    \/ Upload
    \/ ConstructFails
    \/ Preflight
    \/ PreflightBlocks
    \/ Pick
    \/ PickFails
    \/ Download
    \/ DownloadFails
    \/ Captions
    \/ CaptionsFail
    \/ Generate
    \/ GenerateFails
    \/ Build
    \/ BuildFails
    \/ TitleLineFails
    \/ UpdatePostsMetadata
    \/ UpdatePostsMetadataFails
    \/ GitPublish
    \/ GitPublishFails
    \/ Mark
    \/ MarkFails
    \/ Finish
    \/ NextRun

Init == GenInit /\ AsmIdle /\ PipeInit /\ DocIdle /\ DlIdle /\ TwoIdle
Next == PipeNext /\ UNCHANGED <<genVars, asmVars, docVars, dlVars, twoVars>>
Spec == Init /\ [][Next]_vars

\* ---------------------------------------------------------------------------
\* Claims about the selection
\* ---------------------------------------------------------------------------

\* C10: with an unchanged source folder and no successful mark_processed
\* between them, two calls of pick_new_images return the same candidate list;
\* and an id for which mark_processed has succeeded is in no list that a later
\* pick_new_images returns, in this run or in a later one.
C10_SelectionIdempotent ==
    [][(rpc = "start" /\ (rpc' = "picked" \/ run_result'.ok)) =>
          /\ quiet => lastPick' = lastPick
          /\ \A i \in 1..Len(new_images') : new_images'[i].file_id \notin processed]_vars

\* C10 witness: an id is marked, and a later run has just picked, for the
\* second time in a row with nothing changed in between, a non-empty list
\* from a folder that still holds the marked id.
C10_Witness ==
    /\ rpc = "picked"
    /\ repeat
    /\ new_images # <<>>
    /\ lastPick = IdsOf(new_images)
    /\ \E i \in 1..Len(folder) : folder[i].file_id \in processed

\* the number of is_processed calls the loop of pick_new_images makes: one per
\* image, up to and including the image after which the loop breaks
RECURSIVE ScanLoop(_, _, _, _, _)
ScanLoop(all, tracker, size, i, acc) ==
    IF i > Len(all) THEN Len(all)
    ELSE LET acc2 == IF IsProcessed(tracker, all[i].file_id) THEN acc
                     ELSE Append(acc, all[i])
         IN  IF Len(acc2) >= size THEN i
             ELSE ScanLoop(all, tracker, size, i + 1, acc2)

\* the step in which pick_new_images returns its list
PickReturns == rpc = "start" /\ (rpc' = "picked" \/ run_result'.ok)

\* the unprocessed images among the first n of a listing
UnprocessedIn(all, tracker, n) ==
    {j \in 1..n : ~IsProcessed(tracker, all[j].file_id)}

\* C11 (as the claim states it): for every listing, tracker state and
\* configured batch size, pick_new_images returns only unprocessed images, at
\* most batch_size of them, the oldest unprocessed ones in ascending
\* modified_time order, and calls is_processed on no image once the batch is
\* full.  The code breaks this for batch_size = 0.
C11_Original ==
    [][PickReturns =>
          LET all == ListImagesInFolder(folder)
              picked == new_images'
              scanned == ScanLoop(all, processed, batch_size, 1, <<>>)
              taken == {picked[i].file_id : i \in 1..Len(picked)}
          IN  /\ \A i \in 1..Len(picked) : ~IsProcessed(processed, picked[i].file_id)
              /\ Len(picked) <= batch_size
              /\ \A i, j \in 1..Len(picked) :
                    i < j => picked[i].modified_time <= picked[j].modified_time
              /\ \A i \in 1..Len(picked) : \A j \in UnprocessedIn(all, processed, Len(all)) :
                    all[j].file_id \notin taken
                       => picked[i].modified_time <= all[j].modified_time
              /\ \A k \in 1..scanned :
                    Cardinality(UnprocessedIn(all, processed, k - 1)) < batch_size]_vars

\* ---------------------------------------------------------------------------
\* Claims about one run of the pipeline
\* ---------------------------------------------------------------------------

\* the run has returned a PipelineResult
Returned == rpc = "done"

\* the stage was called in this run and returned
StageDone(name) == \E i \in 1..Len(log) : log[i] = Stage(name, TRUE)

\* the stage at which this run failed, "none" when it has not
FailedStage ==
    IF log # <<>> /\ ~log[Len(log)].ok THEN log[Len(log)].stage ELSE "none"

\* C12: in every run mark_processed is called only after the publish step of
\* the same run has returned, and at most once per selected image; a run that
\* fails leaves the processed set as it found it, and every failed result
\* has processed_count 0.
C12_MarkAfterPublish ==
    /\ marks # <<>> => StageDone("publish") /\ publishes = 1
    /\ processed # processed0 => marks # <<>>
    /\ \A i \in 1..Len(marks) :
          /\ \E k \in 1..Len(new_images) : new_images[k].file_id = marks[i].file_id
          /\ \A j \in 1..Len(marks) : i # j => marks[i].file_id # marks[j].file_id
    /\ (Returned /\ ~run_result.ok) =>
          /\ marks = <<>>
          /\ processed = processed0
          /\ run_result.processed_count = 0

\* C12 witness: a run that picked two images has published and has called
\* mark_processed for both, with success at least once.
C12_Witness ==
    /\ rpc = "published"
    /\ Len(marks) = 2
    /\ processed # processed0
    /\ StageDone("publish")

\* the number of mark_processed calls of this run that succeeded
MarkedOk == Cardinality({i \in 1..Len(marks) : marks[i].ok})

\* C13: a failure of mark_processed for one image is not fatal: the run goes
\* on to the remaining images of the batch, returns ok = TRUE, and its
\* processed_count is the number of mark_processed calls that succeeded, which
\* is below the number of images attempted whenever a call failed.
C13_MarkFailureNotFatal ==
    /\ marks # <<>> => rpc \in {"published", "done"}
    /\ (Returned /\ StageDone("publish")) =>
          /\ run_result.ok
          /\ IdsOf(marks) = IdsOf(downloaded)
          /\ run_result.processed_count = MarkedOk
          /\ (\E i \in 1..Len(marks) : ~marks[i].ok) =>
                run_result.processed_count < Len(marks)

\* C13 witness: a run has returned after mark_processed failed for the first
\* image of its batch and succeeded for the second.
C13_Witness ==
    /\ Returned
    /\ Len(marks) = 2
    /\ ~marks[1].ok
    /\ marks[2].ok
    /\ run_result.ok
    /\ run_result.processed_count = 1

\* C14 (as the claim states it): every invocation of run_pipeline ends with a
\* PipelineResult that carries a flag and a message, and no exception leaves
\* it.  The code breaks this when the Pipeline cannot be constructed.
C14_Original ==
    rpc \in {"done", "raised"} => Returned /\ run_result.message # ""

\* the run has returned the result of the except branch of run()
FailedResult == Returned /\ ~run_result.ok /\ run_result.message = "Pipeline failed."

\* C15: a failed result carries the post's path and slug if and only if the
\* assembly had returned before the failure: set to the built post after a
\* failure of the manifest update or of the publish, empty after a failure of
\* selection, download, caption generation, draft generation or assembly; the
\* errors list holds the error in both cases.
C15_FailedResultPost ==
    FailedResult =>
       /\ Len(run_result.errors) = 1
       /\ FailedStage # "none"
       /\ (run_result.post_path # <<>>) <=> StageDone("assembly")
       /\ (run_result.post_slug # <<>>) <=> StageDone("assembly")
       /\ FailedStage \in {"manifest", "publish"} =>
             /\ run_result.post_path = BuildResultOf(BuildTitle(run_title), downloaded).post_path
             /\ run_result.post_slug = BuildResultOf(BuildTitle(run_title), downloaded).post_slug
       /\ FailedStage \in {"select", "download", "captions", "draft", "assembly"} =>
             /\ run_result.post_path = <<>>
             /\ run_result.post_slug = <<>>

\* C15 witness: a run has failed in the publish step and its result names the
\* post that was built.
C15_Witness ==
    /\ FailedResult
    /\ FailedStage = "publish"
    /\ run_result.post_path # <<>>
    /\ run_result.post_path = build_result.post_path

\* no two entries of a manifest have the same file
NoDuplicateFile(ps) == \A i, j \in 1..Len(ps) : i # j => ps[i] # ps[j]

TitleOpen == "title_open"
TitleClose == "title_close"
LayoutLine == "layout: post"
CategoriesLine == "categories: [blog]"
BlockHeader == "block_header"
Dashes == <<"-", "-", "-">>

\* pat occurs in s at position p
HasAt(s, p, pat) ==
    p + Len(pat) - 1 <= Len(s) /\ SubSeq(s, p, p + Len(pat) - 1) = pat

\* ^ with re.MULTILINE: the start of the text or the position after a line feed
AtLineStart(s, p) == p = 1 \/ s[p - 1] = "NL"

\* the first position from q on where --- occurs, 0 when there is none
FindDashes(s, q) ==
    IF \E k \in q..Len(s) : HasAt(s, k, Dashes)
    THEN CHOOSE k \in q..Len(s) :
             HasAt(s, k, Dashes) /\ \A m \in q..(k - 1) : ~HasAt(s, m, Dashes)
    ELSE 0

\* \s*: the first position from k on that holds no white space
RECURSIVE SkipWs(_, _)
SkipWs(s, k) == IF k <= Len(s) /\ s[k] \in Whitespace THEN SkipWs(s, k + 1) ELSE k

\* re.sub(r"^---[\s\S]*?---\s*", "", text, flags=re.MULTILINE) from position p
\* on: every match is removed, a match starts at a line start with --- and
\* ends after the next --- and the white space behind it
RECURSIVE SubFrontMatter(_, _)
SubFrontMatter(s, p) ==
    IF p > Len(s) THEN <<>>
    ELSE IF AtLineStart(s, p) /\ HasAt(s, p, Dashes) /\ FindDashes(s, p + 3) # 0
         THEN SubFrontMatter(s, SkipWs(s, FindDashes(s, p + 3) + 3))
         ELSE <<s[p]>> \o SubFrontMatter(s, p + 1)

\* _strip_front_matter
StripFrontMatter(text) == LStrip(SubFrontMatter(text, 1))

\* the alt text of image i: the stripped summary of its caption entry, or the
\* default (the word for photo and the number)
AltText(items, i) ==
    IF i <= Len(items) /\ items[i].isDict /\ Strip(items[i].summary) # <<>>
    THEN Strip(items[i].summary)
    ELSE <<"photo", DigitOf(i)>>

\* the lines of _render_image_block from image i on
RECURSIVE ImageLines(_, _, _)
ImageLines(paths, items, i) ==
    IF i > Len(paths) THEN <<>>
    ELSE << <<"![">> \o AltText(items, i) \o <<"](", paths[i], ")">>, <<>> >>
         \o ImageLines(paths, items, i + 1)

\* _render_image_block
RenderImageBlock(paths, caps) ==
    LET items == IF caps.isDict THEN caps.images ELSE <<>>
        head == IF paths # <<>> THEN << <<BlockHeader>>, <<>> >> ELSE <<>>
    IN  Strip(JoinNL(head \o ImageLines(paths, items, 1)))

\* _make_markdown
MakeMarkdown(t, text, paths, caps) ==
    LET injected == InjectImages(StripFrontMatter(text), paths)
        img_block == RenderImageBlock(paths, caps)
        doc_body == IF img_block # <<>>
                    THEN img_block \o <<"NL", "NL">> \o Dashes \o <<"NL", "NL">>
                         \o Strip(injected)
                    ELSE injected
    IN  JoinNL(<< Dashes, <<TitleOpen>> \o t \o <<TitleClose>>, <<LayoutLine>>,
                  <<CategoriesLine>>, Dashes, <<>>, Strip(doc_body), <<>> >>)

\* bounds of the inputs of build
MaxDocFrags == 3
MaxDocImages == 2

\* drafts: an optional opening (a front-matter block, a lone --- line, a
\* blank line), a title line, and a body of up to MaxDocFrags fragments
MyTitle == <<"M", "y", " ", "T", "i", "t", "l", "e">>
TextWord == <<" ", "t", "e", "x", "t", " ">>
DocOpenings ==
    { <<>>, Dashes \o <<"NL", "f", "NL">> \o Dashes \o <<"NL">>,
      Dashes \o <<"NL">>, <<"NL">> }
DocTitleLines == {MyTitle, <<"#", " ">> \o MyTitle, <<>>}
DocFragments == {Token(1), Token(2), TextWord, <<"NL">>}
DocDrafts ==
    {o \o t \o <<"NL">> \o Flatten(fs) :
        o \in DocOpenings, t \in DocTitleLines,
        fs \in SeqsUpTo(DocFragments, MaxDocFrags)}

\* caption sets for n images: a dict with n entries, each with or without a
\* summary, a dict without entries, or a value that is no dict
DocEntries == {[isDict |-> TRUE, summary |-> <<>>], [isDict |-> TRUE, summary |-> <<"s">>]}
DocCaptionSets(n) ==
    {[isDict |-> TRUE, images |-> e] : e \in [1..n -> DocEntries]}
       \cup {[isDict |-> TRUE, images |-> <<>>], [isDict |-> FALSE, images |-> <<>>]}
DocPathLists == {[i \in 1..n |-> PathName(i)] : n \in 0..MaxDocImages}

\* build: the title is extracted and the document is made
BuildDocument ==
    /\ apc = "called"
    /\ title_res' = ExtractTitle(post_text)
    /\ md' = IF title_res'.kind = "ok"
             THEN MakeMarkdown(title_res'.title, post_text, image_web_paths, captions_json)
             ELSE <<>>
    /\ apc' = "returned"
    /\ UNCHANGED <<post_text, title, ids, today, calls, base_slug, slug, post_filename,
                   prev_slug, body, image_web_paths, result, captions_json>>

SpecDocInit ==
    /\ GenInit
    /\ PipeIdle
    /\ DlIdle
    /\ TwoIdle
    /\ apc = "called"
    /\ post_text \in DocDrafts
    /\ title_res = [kind |-> "none", title |-> <<>>]
    /\ title = <<>>
    /\ ids = <<>>
    /\ today = "D0"
    /\ calls = 0
    /\ base_slug = <<>>
    /\ slug = <<>>
    /\ post_filename = <<>>
    /\ prev_slug = <<>>
    /\ body = <<>>
    /\ image_web_paths \in DocPathLists
    /\ result = <<>>
    /\ captions_json \in DocCaptionSets(Len(image_web_paths))
    /\ md = <<>>

SpecDocNext == BuildDocument /\ UNCHANGED <<genVars, pipeVars, dlVars, twoVars>>
SpecDoc == SpecDocInit /\ [][SpecDocNext]_vars

\* ---------------------------------------------------------------------------
\* Claims about the document
\* ---------------------------------------------------------------------------

\* the draft of the end-to-end scenario: My Title, a line feed, and a line with
\* the placeholders of image 1 and image 2 around the word text
ScenarioDraft == MyTitle \o <<"NL">> \o Token(1) \o TextWord \o Token(2)

\* the lines of a document behind its front-matter header of five lines
BodyLines(doc) == SubSeq(SplitLines(doc), 6, Len(SplitLines(doc)))

\* the first line of a list that is not blank, <<>> when every line is blank
RECURSIVE FirstNonBlank(_)
FirstNonBlank(lines) ==
    IF lines = <<>> THEN <<>>
    ELSE IF Strip(Head(lines)) # <<>> THEN Head(lines)
    ELSE FirstNonBlank(Tail(lines))

\* the text t occurs in the line
Contains(line, t) == \E p \in 1..Len(line) : HasAt(line, p, t)

\* the first position of symbol c in a document, 0 when it does not occur
FirstPos(doc, c) ==
    IF \E k \in 1..Len(doc) : doc[k] = c
    THEN CHOOSE k \in 1..Len(doc) : doc[k] = c /\ \A m \in 1..(k - 1) : doc[m] # c
    ELSE 0

\* C17 (as the claim states it): for 2 images, a caption set of 2 entries and
\* the draft of the scenario, the document has the front-matter title
\* My Title, its first non-blank body line derives from My Title, and the
\* references to image 1 and image 2 appear in that order.  The code puts its
\* own header line and the image block before the draft.
C17_Original ==
    (/\ apc = "returned"
     /\ post_text = ScenarioDraft
     /\ Len(image_web_paths) = 2
     /\ captions_json.isDict
     /\ Len(captions_json.images) = 2) =>
       /\ SplitLines(md)[2] = <<TitleOpen>> \o MyTitle \o <<TitleClose>>
       /\ Contains(FirstNonBlank(BodyLines(md)), MyTitle)
       /\ FirstPos(md, PathName(1)) # 0
       /\ FirstPos(md, PathName(1)) < FirstPos(md, PathName(2))

\* ---------------------------------------------------------------------------
\* Claims about the images, the stages and the waits
\* ---------------------------------------------------------------------------

\* the local_path of image i of the run before a step, <<>> when the image
\* did not exist yet
PathBefore(i) == IF i <= Len(new_images) THEN new_images[i].local_path ELSE <<>>

\* C18: the local_path of an image is write-once: unset when the image comes
\* out of the listing, assigned once, by the download and only after the
\* image's bytes were written, and changed by no later stage of the run.
C18_LocalPathWriteOnce ==
    [][/\ rpc' = "picked" =>
             \A i \in 1..Len(new_images') : new_images'[i].local_path = <<>>
       /\ \A i \in 1..Len(new_images') :
             /\ new_images'[i].local_path # <<>> =>
                   /\ i <= written'
                   /\ new_images'[i].local_path = LocalPath(new_images'[i].name)
             /\ PathBefore(i) # <<>> => new_images'[i].local_path = PathBefore(i)
             /\ new_images'[i].local_path # PathBefore(i) => rpc = "picked"
       /\ downloaded' # <<>> => downloaded' = new_images']_vars

\* C18 witness: a run with two images has published and begun to mark, and
\* both images carry the local_path the download gave them.
C18_Witness ==
    /\ rpc = "published"
    /\ marks # <<>>
    /\ Len(new_images) = 2
    /\ written = 2
    /\ \A i \in 1..2 : new_images[i].local_path = LocalPath(new_images[i].name)

\* the stages of a run in their order
StageOrder ==
    <<"select", "download", "captions", "draft", "assembly", "manifest", "publish",
      "mark">>

\* C19: the stages of a run are called in the order select, download, caption
\* generation, draft generation, assembly, manifest update, publish, mark
\* processed, each only after the one before has returned; publish is called
\* at most once and only after captions, draft and assembly; an error of a
\* generation call ends the run with ok = FALSE, nothing built or published.
C19_StageOrder ==
    /\ Len(log) <= Len(StageOrder)
    /\ \A i \in 1..Len(log) : log[i].stage = StageOrder[i]
    /\ \A i \in 1..(Len(log) - 1) : log[i].ok
    /\ publishes <= 1
    /\ publishes = 1 =>
          /\ StageDone("captions") /\ StageDone("draft") /\ StageDone("assembly")
          /\ log[Len(log)].stage \in {"publish", "mark"}
    /\ marks # <<>> => StageDone("publish")
    /\ FailedStage # "none" => Returned /\ ~run_result.ok
    /\ FailedStage \in {"captions", "draft"} =>
          /\ build_result = NoBuild
          /\ publishes = 0
          /\ marks = <<>>

\* C19 witness: a run has gone through all eight stages and returned ok.
C19_Witness ==
    /\ Returned
    /\ run_result.ok
    /\ Len(log) = 8
    /\ publishes = 1

\* every image of the folder is in the tracker
NothingNew == \A i \in 1..Len(folder) : folder[i].file_id \in processed

\* the result of a run that found nothing to do
NoNewImages == Returned /\ run_result.ok /\ log = <<Stage("select", TRUE)>>

\* C25: a run that finds no unprocessed image returns ok = TRUE with
\* processed_count 0 and goes through none of the later stages: no download,
\* no generation, no file built, no manifest write, no publish and no
\* mark_processed call; the manifest and the tracker are as they were.
C25_NothingToDo ==
    [][/\ (rpc = "start" /\ rpc' # "start" /\ NothingNew /\ log'[Len(log')].ok) =>
             /\ NoNewImages'
             /\ run_result'.processed_count = 0
             /\ new_images' = <<>> /\ downloaded' = <<>> /\ written' = 0
             /\ run_title' = "" /\ build_result' = NoBuild
             /\ publishes' = 0 /\ marks' = <<>> /\ markIdx' = 0
             /\ posts' = posts
             /\ processed' = processed /\ processed' = processed0
       /\ NoNewImages => (posts' = posts /\ processed' = processed)]_vars

\* C25 witness: the folder holds images, all of them marked by an earlier run
\* that wrote the manifest, and the present run has returned with nothing to
\* do.
C25_Witness ==
    /\ NoNewImages
    /\ run_result.message = "No new images."
    /\ folder # <<>>
    /\ NothingNew
    /\ posts # <<>>
    /\ processed = processed0

\* C20: the wait after a retryable response on attempt a (0..3) lies between
\* base * 2^a and base * 2^a + J, with base 1.2 s and J 0.8 s after a 429 and
\* base 1.0 s and J 0.6 s after a truncation (in tenths of a second: 12, 8, 10
\* and 6); for the same attempt the fixed part of the 429 wait is the larger
\* one, and the fixed part doubles from one attempt to the next.
C20_BackoffBounds ==
    [][(gpc \in {"sleep_429", "sleep_trunc"} /\ gpc' = "loop") =>
          LET base == IF gpc = "sleep_429" THEN 12 ELSE 10
              jit == IF gpc = "sleep_429" THEN 8 ELSE 6
          IN  /\ attempt \in 0..3
              /\ base * (2 ^ attempt) <= wait'
              /\ wait' <= base * (2 ^ attempt) + jit
              /\ Backoff("sleep_429", attempt, 0) > Backoff("sleep_trunc", attempt, 0)
              /\ Backoff(gpc, attempt + 1, 0) = 2 * Backoff(gpc, attempt, 0)
              /\ Backoff(gpc, attempt, 0) = base * (2 ^ attempt)]_vars

\* C20 witness: the call has waited after a 429 on its last attempt (a = 3),
\* for the longest time the jitter allows: 9.6 s + 0.8 s.
C20_Witness ==
    /\ gpc = "loop"
    /\ attempt = 4
    /\ waits = 4
    /\ wait = 104

\* ---------------------------------------------------------------------------
\* Further claims about the generation client
\* ---------------------------------------------------------------------------

\* a 200 response, decoded, whose first candidate (if any) has no part with a
\* non-empty text
NoTextAnswer(r) ==
    /\ r.status = 200
    /\ r.json
    /\ \/ r.cands = <<>>
       \/ \A i \in 1..Len(r.cands[1].parts) :
              ~r.cands[1].parts[i].hasText \/ r.cands[1].parts[i].text = <<>>

\* the first candidate of r says MAX_TOKENS
Truncated(r) == r.cands # <<>> /\ r.cands[1].finishReason = "MAX_TOKENS"

\* C21: in a text-generation call a 200 response without text in its first
\* candidate is retried only when that candidate's finish reason is MAX_TOKENS;
\* with another finish reason, or without candidates, the call raises the
\* unexpected-response error on that attempt, with no wait and no further
\* request.
C21_RetryOnlyTruncated ==
    (TextOp /\ Answered /\ NoTextAnswer(resp)) =>
        IF Truncated(resp)
        THEN gpc = "sleep_trunc" /\ outcome = NoOutcome
        ELSE /\ gpc = "done"
             /\ outcome = Raise("unexpected_response")
             /\ requests = attempt + 1
             /\ waits = attempt

\* C21 witness: the third response of a call is a 200 whose first candidate
\* has the finish reason STOP and no text, and the call has raised.
C21_Witness ==
    /\ TextOp
    /\ Answered
    /\ NoTextAnswer(resp)
    /\ resp.cands # <<>>
    /\ resp.cands[1].finishReason = "STOP"
    /\ attempt = 2
    /\ outcome = Raise("unexpected_response")

\* the preconditions of a real caption request hold
RealCaptions ==
    /\ op = "captions"
    /\ ~mock_mode
    /\ api_key
    /\ provider = "gemini"
    /\ prompt_ok
    /\ images # <<>>

C27_WaitPerRetry ==
    TextOp =>
        /\ gpc \in {"idle", "loop", "done"} => waits = retrySeen
        /\ gpc \in {"sleep_429", "sleep_trunc"} => waits + 1 = retrySeen
        /\ waits = attempt
        /\ outcome = Raise("retries_exhausted") =>
              /\ requests = 4
              /\ waits = 4
              /\ wait >= BaseTrunc * 8

\* C27 witness: the 4th response was truncated without text, the call waited
\* the 8 s of that attempt and then reported that the retries are exhausted.
C27_Witness ==
    /\ TextOp
    /\ gpc = "done"
    /\ outcome = Raise("retries_exhausted")
    /\ waits = 4
    /\ retrySeen = 4
    /\ wait = 80

-----------------------------------------------------------------------------
(* _strip_front_matter over drafts with --- lines *)

\* bound of the drafts: the number of lines
MaxStripLines == 4

\* drafts: up to MaxStripLines lines, each a --- line, a line of text or an
\* empty line, joined by line feeds
StripLines == {Dashes, <<"a">>, <<"b">>, <<>>}
StripDrafts == {JoinNL(ls) : ls \in SeqsUpTo(StripLines, MaxStripLines)}

\* body = self._strip_front_matter(post_text or "")
StripCall ==
    /\ apc = "called"
    /\ body' = StripFrontMatter(post_text)
    /\ apc' = "returned"
    /\ UNCHANGED <<post_text, title_res, title, ids, today, calls, base_slug, slug,
                   post_filename, prev_slug, image_web_paths, result>>

SpecStripInit ==
    /\ GenInit
    /\ PipeIdle
    /\ DocIdle
    /\ DlIdle
    /\ TwoIdle
    /\ apc = "called"
    /\ post_text \in StripDrafts
    /\ title_res = [kind |-> "none", title |-> <<>>]
    /\ title = <<>>
    /\ ids = <<>>
    /\ today = "D0"
    /\ calls = 0
    /\ base_slug = <<>>
    /\ slug = <<>>
    /\ post_filename = <<>>
    /\ prev_slug = <<>>
    /\ body = <<>>
    /\ image_web_paths = <<>>
    /\ result = <<>>

SpecStripNext == StripCall /\ UNCHANGED <<genVars, pipeVars, docVars, dlVars, twoVars>>

SpecStrip == SpecStripInit /\ [][SpecStripNext]_vars

\* position p of s starts a line that consists of --- only
DashLineAt(s, p) ==
    /\ AtLineStart(s, p)
    /\ HasAt(s, p, Dashes)
    /\ (p + 3 > Len(s) \/ s[p + 3] = "NL")

\* the start of the first --- line of s after position p, 0 when there is none
NextDashLine(s, p) ==
    IF \E k \in (p + 1)..Len(s) : DashLineAt(s, k)
    THEN CHOOSE k \in (p + 1)..Len(s) :
             DashLineAt(s, k) /\ \A m \in (p + 1)..(k - 1) : ~DashLineAt(s, m)
    ELSE 0

\* the draft without a front-matter block that opens it: from a --- line at
\* the very start up to the next --- line; everything after it is kept
WithoutOpeningBlock(s) ==
    IF DashLineAt(s, 1) /\ NextDashLine(s, 1) # 0
    THEN SubSeq(s, NextDashLine(s, 1) + 3, Len(s))
    ELSE s



\* C23 as stated: _strip_front_matter removes at most one block delimited by
\* --- lines, and only at the very start of the draft; all content after that
\* block (the whole draft, when it does not begin with a --- line) is kept
\* unchanged apart from leading white space, also when the body holds ---
\* horizontal-rule lines.
C23_Original ==
    apc = "returned" => body = LStrip(WithoutOpeningBlock(post_text))

-----------------------------------------------------------------------------
(* download_images over batches whose names may coincide *)

\* bound of the batches: the number of images
MaxDlImages == 3

\* names of listed files: the folder may hold the same name twice, and names
\* that differ only in characters _safe_filename replaces
DlNames == {<<"a">>, <<"b">>, <<"a", ":">>, <<"a", "?">>}

\* batches as pick_new_images returns them: ids pairwise distinct, no
\* local_path yet
DlBatches ==
    UNION {{[i \in 1..n |-> [file_id |-> i, name |-> nm[i], modified_time |-> 1,
                             local_path |-> <<>>]] : nm \in [1..n -> DlNames]}
           : n \in 1..MaxDlImages}

\* local_path.write_bytes(data): the file at path holds the bytes of image id,
\* whatever it held before
WriteBytes(d, path, id) ==
    {f \in d : f.path # path} \cup {[path |-> path, bytes |-> id]}

\* one turn of the loop of download_images: the bytes of the next image are
\* fetched and written, the image gets its local_path
DownloadOne ==
    /\ rpc = "picked"
    /\ written < Len(new_images)
    /\ disk' = WriteBytes(disk, LocalPath(new_images[written + 1].name),
                          new_images[written + 1].file_id)
    /\ new_images' = DownloadedUpTo(new_images, written + 1)
    /\ written' = written + 1
    /\ UNCHANGED <<rpc, folder, processed, batch_size, downloaded, run_title,
                   build_result, posts, publishes, markIdx, ok_count, run_result,
                   log, marks, processed0, lastPick, quiet, repeat>>

\* _download_bytes raises for the next image: download_images raises
DownloadOneFails ==
    /\ rpc = "picked"
    /\ written < Len(new_images)
    /\ rpc' = "done"
    /\ UNCHANGED <<folder, processed, batch_size, new_images, downloaded, run_title,
                   build_result, posts, publishes, markIdx, ok_count, run_result,
                   written, log, marks, processed0, lastPick, quiet, repeat, disk>>

\* the loop is over: return downloaded
DownloadReturns ==
    /\ rpc = "picked"
    /\ written = Len(new_images)
    /\ downloaded' = new_images
    /\ rpc' = "downloaded"
    /\ UNCHANGED <<folder, processed, batch_size, new_images, run_title,
                   build_result, posts, publishes, markIdx, ok_count, run_result,
                   written, log, marks, processed0, lastPick, quiet, repeat, disk>>

SpecDownloadInit ==
    /\ GenInit
    /\ AsmIdle
    /\ DocIdle
    /\ rpc = "picked"
    /\ folder = <<>>
    /\ processed = {}
    /\ batch_size = MaxDlImages
    /\ new_images \in DlBatches
    /\ downloaded = <<>>
    /\ run_title = ""
    /\ build_result = NoBuild
    /\ posts = <<>>
    /\ publishes = 0
    /\ markIdx = 0
    /\ ok_count = 0
    /\ run_result = NoResult
    /\ written = 0
    /\ log = <<>>
    /\ marks = <<>>
    /\ processed0 = {}
    /\ lastPick = <<>>
    /\ quiet = FALSE
    /\ repeat = FALSE
    /\ disk = {}
    /\ TwoIdle

SpecDownloadNext ==
    /\ \/ DownloadOne
       \/ DownloadOneFails
       \/ DownloadReturns
    /\ UNCHANGED <<genVars, asmVars, docVars, twoVars>>

SpecDownload == SpecDownloadInit /\ [][SpecDownloadNext]_vars

\* C26 as stated: after download_images has succeeded on a batch with pairwise
\* distinct ids, the images have pairwise distinct local_path values, and the
\* file of every image holds that image's own bytes: none was overwritten by
\* another image of the batch, also when two images share a name.
C26_Original ==
    rpc = "downloaded" =>
        /\ \A i, j \in 1..Len(downloaded) :
              i # j => downloaded[i].local_path # downloaded[j].local_path
        /\ \A i \in 1..Len(downloaded) :
              [path |-> downloaded[i].local_path, bytes |-> downloaded[i].file_id]
                  \in disk

-----------------------------------------------------------------------------
(* Two runs of the pipeline on one folder and one tracker *)

\* bounds of the two-run model: files of the folder, configured batch size
MaxTwoFiles == 2
MaxTwoBatch == 2

TwoRuns == {1, 2}

\* folders of up to MaxTwoFiles images
TwoFolders ==
    UNION {{[i \in 1..n |-> [file_id |-> i, name |-> NameOf(i), modified_time |-> t[i]]]
               : t \in [1..n -> MTimes]}
           : n \in 0..MaxTwoFiles}

\* a run that has not been started, and a run at the start of run()
RunIdle == [pc |-> "idle", new_images |-> <<>>, published |-> FALSE, markIdx |-> 0]
RunStart == [RunIdle EXCEPT !.pc = "start"]

\* the pipeline variables a step of one of the two runs leaves alone
twoFrame ==
    <<rpc, folder, batch_size, new_images, downloaded, run_title, build_result,
      posts, publishes, markIdx, ok_count, run_result, written, log, marks,
      processed0, lastPick, quiet, repeat>>

\* run() is called (again) for run r
Start2(r) ==
    /\ runs[r].pc \in {"idle", "done"}
    /\ runs' = [runs EXCEPT ![r] = RunStart]
    /\ UNCHANGED <<processed, twoFrame>>

\* mutant: the selection of run r leaves out what the other run has selected
\* and is still working on
Pick2_exclusive(r) ==
    /\ runs[r].pc = "start"
    /\ LET other == CHOOSE q \in TwoRuns : q # r
           held == IF runs[other].pc \in {"picked", "published"}
                   THEN {runs[other].new_images[i].file_id :
                            i \in 1..Len(runs[other].new_images)}
                   ELSE {}
           picked == PickNewImages(folder, processed \cup held, batch_size)
       IN  runs' = [runs EXCEPT ![r].new_images = picked,
                                ![r].pc = IF picked = <<>> THEN "done" ELSE "picked"]
    /\ UNCHANGED <<processed, twoFrame>>

\* _pick_and_download of run r: pick_new_images reads the folder and the
\* tracker; an empty selection ends the run
Pick2(r) ==
    /\ runs[r].pc = "start"
    /\ LET picked == PickNewImages(folder, processed, batch_size)
       IN  runs' = [runs EXCEPT ![r].new_images = picked,
                                ![r].pc = IF picked = <<>> THEN "done" ELSE "picked"]
    /\ UNCHANGED <<processed, twoFrame>>

\* run r downloads, generates, builds, writes the manifest and publishes
Publish2(r) ==
    /\ runs[r].pc = "picked"
    /\ runs' = [runs EXCEPT ![r].pc = "published", ![r].published = TRUE]
    /\ UNCHANGED <<processed, twoFrame>>

\* one of the stages of run r up to the publish raises: the run ends
RunFails2(r) ==
    /\ runs[r].pc = "picked"
    /\ runs' = [runs EXCEPT ![r].pc = "done"]
    /\ UNCHANGED <<processed, twoFrame>>

\* _update_state of run r: mark_processed succeeds for the next image
Mark2(r) ==
    /\ runs[r].pc = "published"
    /\ runs[r].markIdx < Len(runs[r].new_images)
    /\ processed' = MarkProcessed(processed, runs[r].new_images[runs[r].markIdx + 1].file_id)
    /\ runs' = [runs EXCEPT ![r].markIdx = @ + 1]
    /\ UNCHANGED twoFrame

\* mark_processed raises for the next image; the loop goes on
MarkFails2(r) ==
    /\ runs[r].pc = "published"
    /\ runs[r].markIdx < Len(runs[r].new_images)
    /\ runs' = [runs EXCEPT ![r].markIdx = @ + 1]
    /\ UNCHANGED <<processed, twoFrame>>

\* run() of run r returns
Finish2(r) ==
    /\ runs[r].pc = "published"
    /\ runs[r].markIdx = Len(runs[r].new_images)
    /\ runs' = [runs EXCEPT ![r].pc = "done"]
    /\ UNCHANGED <<processed, twoFrame>>

SpecTwoInit ==
    /\ GenInit
    /\ AsmIdle
    /\ DocIdle
    /\ DlIdle
    /\ rpc = "off"
    /\ folder \in TwoFolders
    /\ processed = {}
    /\ batch_size \in 1..MaxTwoBatch
    /\ new_images = <<>>
    /\ downloaded = <<>>
    /\ run_title = ""
    /\ build_result = NoBuild
    /\ posts = <<>>
    /\ publishes = 0
    /\ markIdx = 0
    /\ ok_count = 0
    /\ run_result = NoResult
    /\ written = 0
    /\ log = <<>>
    /\ marks = <<>>
    /\ processed0 = {}
    /\ lastPick = <<>>
    /\ quiet = FALSE
    /\ repeat = FALSE
    /\ runs = [r \in TwoRuns |-> RunIdle]

SpecTwoNext ==
    /\ \E r \in TwoRuns :
          \/ Start2(r)
          \/ Pick2(r)
          \/ Publish2(r)
          \/ RunFails2(r)
          \/ Mark2(r)
          \/ MarkFails2(r)
          \/ Finish2(r)
    /\ UNCHANGED <<genVars, asmVars, docVars, dlVars>>

SpecTwo == SpecTwoInit /\ [][SpecTwoNext]_vars

\* the ids run r has selected
Selected(r) == {runs[r].new_images[i].file_id : i \in 1..Len(runs[r].new_images)}

\* the images pick_new_images owes a run: the unprocessed images of the
\* listing that have fewer than batch_size unprocessed images before them
Owed ==
    LET all == ListImagesInFolder(folder)
    IN  {all[i].file_id : i \in {j \in 1..Len(all) :
            /\ all[j].file_id \notin processed
            /\ Cardinality(UnprocessedIn(all, processed, j - 1)) < batch_size}}

\* C24: concurrent runs are unsafe.  Nothing in selection, publish or marking
\* keeps two runs apart: the selection of a run holds every unprocessed image
\* it would hold alone, also the images the other run has selected or
\* published and not yet marked; and marking does not look at the other run.
\* (The witness is the execution in which both runs select the same image and
\* both publish a post for it before either marks it.)
C24_NoExclusion ==
    [][\A r \in TwoRuns :
          /\ (runs[r].pc = "start" /\ runs'[r].pc # "start") =>
                /\ Selected(r)' = Owed
                /\ runs'[r].pc = IF Owed = {} THEN "done" ELSE "picked"
          /\ (runs[r].pc = "picked" /\ runs'[r].pc = "published") =>
                processed' = processed
          /\ runs'[r].markIdx = runs[r].markIdx + 1 =>
                processed' \in
                    {processed,
                     processed \cup {runs[r].new_images[runs'[r].markIdx].file_id}}]_vars

\* C24 witness: both runs have selected the same unprocessed image and both
\* have published a post for it, and neither has called mark_processed yet.
C24_Witness ==
    /\ runs # <<>>
    /\ \A r \in TwoRuns :
          /\ runs[r].pc = "published"
          /\ runs[r].published
          /\ runs[r].markIdx = 0
    /\ \E x \in Selected(1) \cap Selected(2) : x \notin processed

====
